---- MODULE Spec2Model ----
(***************************************************************************)
(* Backup sync engine of moltworker (src/gateway/sync.ts, utils.ts): one   *)
(* syncToR2 call is a sequence of awaited container commands.  Every await *)
(* is a step of the model; the container (marker files, the mounted store, *)
(* the processes it runs) evolves between the steps.                       *)
(***************************************************************************)
EXTENDS Integers, Sequences, FiniteSets, TLC

(***************************************************************************)
(* Strings.  JavaScript strings are TLA+ strings; Len, \o and SubSeq work  *)
(* on them, a character is a substring of length one.                      *)
(***************************************************************************)
Digits == {"0", "1", "2", "3", "4", "5", "6", "7", "8", "9"}

Blanks == {" ", "\n", "\t"}

DigitVal(c) ==
    CASE c = "0" -> 0 [] c = "1" -> 1 [] c = "2" -> 2 [] c = "3" -> 3
      [] c = "4" -> 4 [] c = "5" -> 5 [] c = "6" -> 6 [] c = "7" -> 7
      [] c = "8" -> 8 [] c = "9" -> 9

DigitChar(d) ==
    CASE d = 0 -> "0" [] d = 1 -> "1" [] d = 2 -> "2" [] d = 3 -> "3"
      [] d = 4 -> "4" [] d = 5 -> "5" [] d = 6 -> "6" [] d = 7 -> "7"
      [] d = 8 -> "8" [] d = 9 -> "9"

CharAt(s, i) == SubSeq(s, i, i)

\* String.prototype.includes
Includes(s, t) == \E i \in 1..(Len(s) - Len(t) + 1) : SubSeq(s, i, i + Len(t) - 1) = t

\* String.prototype.startsWith
StartsWith(s, t) == Len(s) >= Len(t) /\ SubSeq(s, 1, Len(t)) = t

\* String.prototype.trim: drop leading and trailing white space
RECURSIVE TrimLeft(_)
TrimLeft(s) ==
    IF Len(s) > 0 /\ CharAt(s, 1) \in Blanks THEN TrimLeft(SubSeq(s, 2, Len(s))) ELSE s

RECURSIVE TrimRight(_)
TrimRight(s) ==
    IF Len(s) > 0 /\ CharAt(s, Len(s)) \in Blanks
    THEN TrimRight(SubSeq(s, 1, Len(s) - 1)) ELSE s

Trim(s) == TrimRight(TrimLeft(s))

\* String.prototype.slice(0, n)
Slice0(s, n) == IF Len(s) <= n THEN s ELSE SubSeq(s, 1, n)

\* a JavaScript number that is an integer or NaN
NaN == [nan |-> TRUE, val |-> 0]

Num(n) == [nan |-> FALSE, val |-> n]

\* isNaN
IsNaN(r) == r.nan

\* value of the longest run of decimal digits at the start of s, acc so far
RECURSIVE DigitsValue(_, _)
DigitsValue(s, acc) ==
    IF Len(s) > 0 /\ CharAt(s, 1) \in Digits
    THEN DigitsValue(SubSeq(s, 2, Len(s)), 10 * acc + DigitVal(CharAt(s, 1)))
    ELSE acc

\* parseInt(s, 10): skip leading white space, an optional sign, then the
\* longest run of digits; NaN when there is no digit; the rest is ignored
ParseInt(s) ==
    LET t == TrimLeft(s)
        neg == Len(t) > 0 /\ CharAt(t, 1) = "-"
        u == IF Len(t) > 0 /\ CharAt(t, 1) \in {"-", "+"} THEN SubSeq(t, 2, Len(t)) ELSE t
    IN  IF Len(u) = 0 \/ CharAt(u, 1) \notin Digits THEN NaN
        ELSE IF neg THEN Num(0 - DigitsValue(u, 0)) ELSE Num(DigitsValue(u, 0))

\* template-literal formatting of an integer: `${n}`
RECURSIVE NatToString(_)
NatToString(n) ==
    IF n < 10 THEN DigitChar(n) ELSE NatToString(n \div 10) \o DigitChar(n % 10)

IntToString(n) == IF n < 0 THEN "-" \o NatToString(0 - n) ELSE NatToString(n)

\* `${r}` for a number that may be NaN
NumToString(r) == IF r.nan THEN "NaN" ELSE IntToString(r.val)

\* s.split('---'): the parts of s between occurrences of the delimiter
RECURSIVE FirstIndexOf(_, _, _)
FirstIndexOf(s, t, i) ==
    IF i + Len(t) - 1 > Len(s) THEN 0
    ELSE IF SubSeq(s, i, i + Len(t) - 1) = t THEN i
    ELSE FirstIndexOf(s, t, i + 1)

RECURSIVE Split(_, _)
Split(s, t) ==
    LET i == FirstIndexOf(s, t, 1)
    IN  IF i = 0 THEN <<s>>
        ELSE <<SubSeq(s, 1, i - 1)>> \o Split(SubSeq(s, i + Len(t), Len(s)), t)

\* lastSync.match(/^\d{4}-\d{2}-\d{2}/)
IsDateShaped(s) ==
    /\ Len(s) >= 10
    /\ \A i \in {1, 2, 3, 4, 6, 7, 9, 10} : CharAt(s, i) \in Digits
    /\ CharAt(s, 5) = "-"
    /\ CharAt(s, 8) = "-"

(***************************************************************************)
(* Bounds of the model and constants of the program.                       *)
(***************************************************************************)
\* sync calls made one after the other in one behaviour
MaxSyncs == 2

\* polls of waitForOutput, ceil(SYNC_TIMEOUT_MS / 1000); config.ts sets the
\* timeout, the model keeps the number of polls small
SyncPolls == 1

\* polls of waitForProcess for a 5 s wait; kept small the same way
ProcPolls == 1

MIN_BOOT_AGE_SECONDS == 600

\* fileCount <= 3
MinFileCount == 3

\* .slice(0, 500)
DetailLimit == 500

(***************************************************************************)
(* Optional fields of a SyncResult: absent is <<>>, present is <<v>>.      *)
(***************************************************************************)
None == <<>>

Some(v) == <<v>>

\* interface SyncResult
SyncResult(success, lastSync, error, details) ==
    [success |-> success, lastSync |-> lastSync, error |-> error, details |-> details]

Failure(error, details) == SyncResult(FALSE, None, Some(error), details)

\* err instanceof Error ? err.message : 'Unknown error'
ErrMessages == {"Container not running"}

(***************************************************************************)
(* Files: a file is absent or holds a text.                                *)
(***************************************************************************)
NoFile == [exists |-> FALSE, text |-> ""]

File(t) == [exists |-> TRUE, text |-> t]

\* the store mounted at R2_MOUNT_PATH: the files syncCmd writes and one file
\* it never names (left by an earlier layout of the backup)
LastSync == ".last-sync"

ArchiveFiles == {"openclaw-backup.tar.gz", "skills-backup.tar.gz",
                 "gogcli-backup.tar.gz", "ms-graph-tokens.json"}

OrphanFile == "clawdbot/clawdbot.json"

\* the entries of the store start-moltbot.sh looks for besides the marker and
\* clawdbot/clawdbot.json: the flat legacy config and the two directories
LegacyFile == "clawdbot.json"

SnapshotDirs == {"skills", "gogcli"}

RemoteFiles == {LastSync, OrphanFile, LegacyFile} \cup SnapshotDirs \cup ArchiveFiles

\* what `date -Iseconds` prints during the n-th sync call
DateString(n) == "2026-02-0" \o IntToString(n) \o "T12:00:00+00:00"

\* contents of the boot-timestamp marker the model tries
BootTexts == {"300\n", "400\n", "401\n", "1001\n", "abc\n", "400x\n"}

Nows == {1000}

UsageCounts == {0, 1}

FileCounts == {2, 3, 4, 8}

Credentials == {"R2_ACCESS_KEY_ID", "R2_SECRET_ACCESS_KEY", "CF_ACCOUNT_ID"}

AuxStores == {"gogcli", "msgraph"}

\* a tar or cp error message, and one longer than the detail limit
RECURSIVE Doubled(_, _)
Doubled(t, k) == IF k = 0 THEN t ELSE LET h == Doubled(t, k - 1) IN h \o h

ShortStderr == "tar: .openclaw: file changed as we read it\n"

LongStderr == "cp: " \o Doubled("e", 10)

\* what a failing command of syncCmd leaves on stderr
StderrOf(stage) ==
    CASE stage = "tar" -> {"", ShortStderr}
      [] stage = "cpConfig" -> {LongStderr}
      [] stage = "cpSkills" -> {ShortStderr}
      [] stage = "date" -> {""}

(***************************************************************************)
(* State.                                                                  *)
(***************************************************************************)
VARIABLES
    creds,            \* the store credentials present in env
    now,              \* Math.floor(Date.now() / 1000)
    restoreComplete,  \* /root/.openclaw/.restore-complete exists
    bootFile,         \* /root/.openclaw/.boot-timestamp
    usageCount,       \* lines of openclaw.json matching lastTouchedAt
    fileCount,        \* entries of /root/.openclaw
    auxStores,        \* which of the optional credential stores exist
    remote,           \* the files of the mounted store
    hadMarker,        \* the store held a last-sync marker when the current call began
    syncs,            \* sync calls made so far
    pc,               \* where the current syncToR2 call stands
    force,            \* options.force of the current call
    result,           \* its SyncResult once it has returned
    cmds,             \* the container commands it has issued, in order
    proc,             \* the process it is waiting for
    attempts,         \* the poll counter of the wait it is in
    wres,             \* the result of waitForOutput
    seen,             \* the stdout each getLogs call has returned
    thrown,           \* the steps whose container call threw
    lateRm,           \* the rm process was still pending when its wait ended
    arch              \* the archive/upload process inside the container

envVars == <<creds, now, restoreComplete, bootFile, usageCount, fileCount, auxStores>>

callVars == <<pc, force, result, cmds, proc, attempts, wres, seen, thrown>>

\* the sync's variables but the two markers the boot routine writes
syncOther == <<creds, now, usageCount, fileCount, auxStores, remote, hadMarker, syncs,
               pc, force, result, cmds, proc, attempts, wres, seen, thrown, lateRm, arch>>

syncVars == <<creds, now, restoreComplete, bootFile, usageCount, fileCount, auxStores,
              remote, hadMarker, syncs, pc, force, result, cmds, proc, attempts, wres, seen,
              thrown, lateRm, arch>>

\* start-moltbot.sh and the container it runs in
VARIABLES
    bpc,              \* where the boot routine stands, "off" when it is not running
    gateway,          \* a 'clawdbot gateway' process is running
    loc,              \* the container's files the boot routine reads and writes
    boots,            \* boot routines started so far
    loc0,             \* the container's files when the current boot routine began
    restored,         \* the resource groups the current boot routine has copied
    quarantined,      \* the current boot routine removed a corrupt config before restoring
    starts            \* gateway processes started so far

bootVars == <<bpc, gateway, loc, boots, loc0, restored, quarantined, starts>>

\* bridge.get('/') and the two sockets of its relay
VARIABLES
    hpc,              \* where the handler of the upgrade request stands
    req,              \* the request: Upgrade and Connection headers, query parameters
    benv,             \* c.env: BRIDGE_SECRET and MOLTBOT_GATEWAY_TOKEN
    gwReq,            \* the request built for the gateway inside the container
    resp,             \* the response returned to the client
    calls,            \* the calls made to the gateway supervisor and the sandbox, in order
    ws,               \* readyState of serverWs and containerWs
    events,           \* the events dispatched to the relay's listeners, in order
    sent,             \* the send() calls of the relay, with the readyState they met
    dropped,          \* the messages the relay did not forward
    closeCalls        \* the close() calls of the relay, with the event that caused each

bridgeVars == <<hpc, req, benv, gwReq, resp, calls, ws, events, sent, dropped, closeCalls>>

\* buildEnvVars
VARIABLES
    wenv,             \* env: the worker's bindings
    cenv,             \* the record returned for the container process, None before the call
    penv,             \* process.env of start-moltbot.sh: the channel settings
    wt,               \* a call of waitForProcess or waitForOutput taken by itself
    silent,           \* the probe had printed nothing when its wait returned; kept up to the log read
    git,              \* the git workspace section of the boot routine and /root/clawd
    race              \* two syncToR2 calls past the gate at once, and the archives in /tmp

restVars == <<wenv, cenv, penv, wt, silent, git, race>>

\* what a step of the sync between a probe's wait and its log read leaves alone
outsideSync == <<bootVars, bridgeVars, wenv, cenv, penv, wt, git, race>>

\* everything syncToR2 does not touch
outside == <<bootVars, bridgeVars, restVars>>

vars == <<syncVars, outside>>

NoProc == [cmd |-> "none", status |-> "completed", ran |-> TRUE, stdout |-> ""]

NoArch == [stage |-> "none", stdout |-> "", stderr |-> "", tmp |-> <<>>]

NoWres == [found |-> FALSE, stdout |-> "", stderr |-> ""]

ProbeCmds == {"restoreProc", "ageProc", "stateProc", "timestampProc"}

NoSeen == [c \in ProbeCmds |-> None]

\* the stores the model starts from: empty, a complete snapshot, a snapshot
\* whose marker is missing
OldSnapshot(marker) ==
    [f \in RemoteFiles |->
        IF f = LastSync THEN marker
        ELSE IF f = OrphanFile THEN File("old config")
        ELSE File("old " \o f)]

InitRemotes ==
    {[f \in RemoteFiles |-> NoFile],
     OldSnapshot(File("2026-01-01T00:00:00+00:00\n")),
     OldSnapshot(NoFile)}

\* a container as the platform hands it over: booted from the template, unused
FreshContainer ==
    /\ restoreComplete \in BOOLEAN
    /\ bootFile \in {File("400\n"), File("401\n")}
    /\ usageCount = 0
    /\ fileCount = 3
    /\ auxStores = {}

\* the environments the model starts from: every combination of the marker
\* files and usage signals when the credentials are complete, and a fresh
\* container for each incomplete set of credentials
EnvInit ==
    /\ now \in Nows
    /\ creds \in SUBSET Credentials
    /\ IF creds = Credentials
       THEN /\ restoreComplete \in BOOLEAN
            /\ bootFile \in {NoFile} \cup {File(t) : t \in BootTexts}
            /\ usageCount \in UsageCounts
            /\ fileCount \in FileCounts
            /\ auxStores \in {{}, AuxStores}
       ELSE FreshContainer

(***************************************************************************)
(* start-moltbot.sh: the files it works on and the dates it compares.      *)
(***************************************************************************)
\* CONFIG_FILE, relative to CONFIG_DIR
ConfigFile == "clawdbot.json"

BootStamp == ".boot-timestamp"

RestoreMark == ".restore-complete"

SKILLS_DIR == "/root/clawd/skills"

GOG_CONFIG_DIR == "/root/.config/gogcli"

MS_GRAPH_TOKEN_FILE == "/root/.ms-graph-tokens.json"

\* the entries CONFIG_DIR can hold, by their name inside it
ConfigEntries == RemoteFiles \cup {BootStamp, RestoreMark}

LocalFiles == ConfigEntries \cup {SKILLS_DIR, GOG_CONFIG_DIR, MS_GRAPH_TOKEN_FILE}

\* $(cat file): the text without its trailing newlines
RECURSIVE CommandSubst(_)
CommandSubst(t) ==
    IF Len(t) > 0 /\ CharAt(t, Len(t)) = "\n"
    THEN CommandSubst(SubSeq(t, 1, Len(t) - 1))
    ELSE t

AllDigits(t) == \A i \in 1..Len(t) : CharAt(t, i) \in Digits

\* days from 1970-01-01 to the civil date y-m-d
DaysFromCivil(y, m, d) ==
    LET yy == IF m <= 2 THEN y - 1 ELSE y
        era == yy \div 400
        yoe == yy - era * 400
        mp == (m + 9) % 12
        doy == (153 * mp + 2) \div 5 + d - 1
        doe == yoe * 365 + yoe \div 4 - yoe \div 100 + doy
    IN  era * 146097 + doe - 719468

\* date -d "$t" +%s for the texts `date -Iseconds` writes in a UTC container:
\* the epoch seconds, or None when date rejects the text; the empty text is
\* read by date as the start of the current day
DateEpoch(t) ==
    IF t = "" THEN Some(now - (now % 86400))
    ELSE IF /\ Len(t) = 25
            /\ AllDigits(SubSeq(t, 1, 4)) /\ CharAt(t, 5) = "-"
            /\ AllDigits(SubSeq(t, 6, 7)) /\ CharAt(t, 8) = "-"
            /\ AllDigits(SubSeq(t, 9, 10)) /\ CharAt(t, 11) = "T"
            /\ AllDigits(SubSeq(t, 12, 13)) /\ CharAt(t, 14) = ":"
            /\ AllDigits(SubSeq(t, 15, 16)) /\ CharAt(t, 17) = ":"
            /\ AllDigits(SubSeq(t, 18, 19)) /\ SubSeq(t, 20, 25) = "+00:00"
    THEN Some(DaysFromCivil(DigitsValue(SubSeq(t, 1, 4), 0), DigitsValue(SubSeq(t, 6, 7), 0),
                            DigitsValue(SubSeq(t, 9, 10), 0)) * 86400
              + DigitsValue(SubSeq(t, 12, 13), 0) * 3600
              + DigitsValue(SubSeq(t, 15, 16), 0) * 60
              + DigitsValue(SubSeq(t, 18, 19), 0))
    ELSE None

\* $(date -d "$t" +%s 2>/dev/null || echo "0")
EpochOrZero(t) == IF DateEpoch(t) = None THEN 0 ELSE DateEpoch(t)[1]

\* a config the quarantine step removes: grep -q '"dm":'
Corrupt(f) == f.exists /\ Includes(f.text, "\"dm\":")

OldStamp == "2026-01-01T00:00:00+00:00\n"

NewStamp == DateString(1) \o "\n"

BadStamp == "yesterday-ish\n"

StampTexts == {OldStamp, NewStamp, BadStamp}

CorruptConfig == "{\"channels\":{\"telegram\":{\"dm\":{}}}}"

TemplateConfig == "{\"gateway\":{\"port\":18789,\"mode\":\"local\"}}"

NoLocal == [f \in LocalFiles |-> NoFile]

\* the boot routine is not running and the container is the image as built
NoEnv == [AI_GATEWAY_API_KEY |-> None, AI_GATEWAY_BASE_URL |-> None,
          ANTHROPIC_API_KEY |-> None, OPENAI_API_KEY |-> None, ANTHROPIC_BASE_URL |-> None]

NoProcessEnv ==
    [TELEGRAM_BOT_TOKEN |-> None, TELEGRAM_DM_POLICY |-> None, DISCORD_BOT_TOKEN |-> None,
     SLACK_BOT_TOKEN |-> None, SLACK_APP_TOKEN |-> None, SLACK_DM_POLICY |-> None,
     GITHUB_PAT |-> None, GITHUB_REPO |-> None]

\* the environments the boot routine is run in
ProcessEnvs ==
    {NoProcessEnv,
     [NoProcessEnv EXCEPT !.TELEGRAM_BOT_TOKEN = Some("tg-token"),
                          !.TELEGRAM_DM_POLICY = Some("pairing")],
     [NoProcessEnv EXCEPT !.DISCORD_BOT_TOKEN = Some("dc-token")],
     [NoProcessEnv EXCEPT !.SLACK_BOT_TOKEN = Some("xoxb"), !.SLACK_APP_TOKEN = Some("xapp")],
     [NoProcessEnv EXCEPT !.SLACK_BOT_TOKEN = Some("xoxb"), !.SLACK_DM_POLICY = Some("open")],
     [NoProcessEnv EXCEPT !.SLACK_BOT_TOKEN = Some("xoxb"), !.SLACK_APP_TOKEN = Some("xapp"),
                          !.SLACK_DM_POLICY = Some("open")],
     [NoProcessEnv EXCEPT !.GITHUB_PAT = Some("ghp")],
     [NoProcessEnv EXCEPT !.GITHUB_PAT = Some("ghp"), !.GITHUB_REPO = Some("owner/repo")],
     [NoProcessEnv EXCEPT !.TELEGRAM_BOT_TOKEN = Some("tg-token"),
                          !.GITHUB_PAT = Some("ghp"), !.GITHUB_REPO = Some("owner/repo")]}

\* no wait call is being looked at
NoWait ==
    [fn |-> "none", timeoutMs |-> 0, pollIntervalMs |-> 1, status |-> "completed", out |-> "",
     at |-> "off", attempts |-> 0, sleeps |-> 0, reads |-> 0, ret |-> None]

\* no git command has failed, /root/clawd as the image has it
NoGit == [failed |-> {}, workspace |-> "image"]

\* the calls that run at once
Attempts == {1, 2}

\* a call that has not reached the sync section
NoAttempt ==
    [pc |-> "off", rm |-> "none", stage |-> "none", stdout |-> "", stderr |-> "", polls |-> 0,
     ret |-> None]

NoRace == [call |-> [i \in Attempts |-> NoAttempt], tmp |-> 0]

RestOff ==
    /\ wenv = NoEnv /\ cenv = None /\ penv = NoProcessEnv
    /\ wt = NoWait /\ silent = FALSE /\ git = NoGit
    /\ race = NoRace

BootOff ==
    /\ bpc = "off"
    /\ gateway = TRUE
    /\ loc = NoLocal
    /\ boots = 0
    /\ loc0 = NoLocal
    /\ restored = {}
    /\ quarantined = FALSE
    /\ starts = 0

(***************************************************************************)
(* routes/bridge.ts: requests, sockets and events.                         *)
(***************************************************************************)
\* WebSocket.OPEN and the other values of readyState
CONNECTING == 0

OPEN == 1

CLOSING == 2

CLOSED == 3

Sockets == {"serverWs", "containerWs"}

NoRequest == [route |-> "relay", upgrade |-> None, connection |-> None, params |-> <<>>]

NoResponse == [status |-> 0, error |-> ""]

\* no request has reached the bridge
BridgeOff ==
    /\ hpc = "idle"
    /\ req = NoRequest
    /\ benv = [secret |-> None, token |-> None]
    /\ gwReq = None
    /\ resp = NoResponse
    /\ calls = <<>>
    /\ ws = [s \in Sockets |-> CONNECTING]
    /\ events = <<>>
    /\ sent = <<>>
    /\ dropped = <<>>
    /\ closeCalls = <<>>

CallInit ==
    /\ pc = "idle"
    /\ force = FALSE
    /\ result = None
    /\ cmds = <<>>
    /\ proc = NoProc
    /\ attempts = 0
    /\ wres = NoWres
    /\ seen = NoSeen
    /\ thrown = {}

Init ==
    /\ EnvInit
    /\ remote \in InitRemotes
    /\ hadMarker = FALSE
    /\ syncs = 0
    /\ CallInit
    /\ lateRm = FALSE
    /\ arch = NoArch
    /\ BootOff
    /\ BridgeOff
    /\ RestOff

(***************************************************************************)
(* The container: what each command prints and changes when it runs.       *)
(***************************************************************************)
\* stdout of the commands syncToR2 starts and waits for with waitForProcess
Output(c) ==
    CASE c = "restoreProc" -> IF restoreComplete THEN "ok\n" ELSE ""
      [] c = "ageProc" -> IF bootFile.exists THEN bootFile.text ELSE ""
      [] c = "stateProc" ->
            IntToString(usageCount) \o "\n---\n" \o IntToString(fileCount) \o "\n"
      [] c = "rmProc" -> ""
      [] c = "timestampProc" -> IF remote[LastSync].exists THEN remote[LastSync].text ELSE ""

\* rm -rf ${R2_MOUNT_PATH}/*
RemoveEverything(r) == [f \in DOMAIN r |-> NoFile]

\* rm -f ${R2_MOUNT_PATH}/.last-sync
RemoveLastSync(r) == [r EXCEPT ![LastSync] = NoFile]

\* the store after command c has run
Effect(c, r) == IF c = "rmProc" THEN RemoveLastSync(r) ELSE r

\* the content of the archive tar builds from the configuration directory
ConfigArchive == "config usage=" \o IntToString(usageCount) \o " files=" \o IntToString(fileCount)

(***************************************************************************)
(* syncToR2: control flow.                                                 *)
(***************************************************************************)
CmdOf(p) ==
    CASE p \in {"A_start", "A_wait", "A_logs"} -> "restoreProc"
      [] p \in {"B_start", "B_wait", "B_logs"} -> "ageProc"
      [] p \in {"C_start", "C_wait", "C_logs"} -> "stateProc"
      [] p \in {"rm_start", "rm_wait"} -> "rmProc"
      [] p \in {"sync_start", "sync_poll"} -> "syncProc"
      [] p \in {"ts_start", "ts_wait", "ts_logs"} -> "timestampProc"

StartPcs == {"A_start", "B_start", "C_start", "rm_start", "ts_start"}

WaitPcs == {"A_wait", "B_wait", "C_wait", "rm_wait", "ts_wait"}

LogsPcs == {"A_logs", "B_logs", "C_logs", "ts_logs"}

WaitPcOf(p) ==
    CASE p = "A_start" -> "A_wait" [] p = "B_start" -> "B_wait" [] p = "C_start" -> "C_wait"
      [] p = "rm_start" -> "rm_wait" [] p = "ts_start" -> "ts_wait"

\* where the call goes when waitForProcess returns
AfterWait(p) ==
    CASE p = "A_wait" -> "A_logs" [] p = "B_wait" -> "B_logs" [] p = "C_wait" -> "C_logs"
      [] p = "rm_wait" -> "sync_start" [] p = "ts_wait" -> "ts_logs"

\* check 1 wrongly put under `if (!force)` like the other two
AfterMountSkippedByForce(f) == IF f THEN "rm_start" ELSE "A_start"

\* the first gate check is not under `if (!force)`
AfterMount(f) == "A_start"

\* check 2 run whatever force says
AfterCheckAIgnoresForce(f) == "B_start"

\* if (!force) { check 2 }
AfterCheckA(f) == IF f THEN "rm_start" ELSE "B_start"

\* if (!force) { check 3 }
AfterCheckB(f) == IF f THEN "rm_start" ELSE "C_start"

\* the gate hands over to the archive/upload step, the pre-clear left out
AfterCheckCSkipsPreClear(f) == "sync_start"

AfterCheckC(f) == "rm_start"

\* a failure is recorded and the call goes on to the archive/upload step
ReturnFallsThrough(r) ==
    /\ pc' = IF r.success THEN "done" ELSE "sync_start"
    /\ result' = Some(r)

\* return r
Return(r) ==
    /\ pc' = "done"
    /\ result' = Some(r)

\* no catch block: the exception leaves syncToR2
CatchRethrows(c, msg) ==
    /\ thrown' = thrown \cup {c}
    /\ pc' = "escaped"
    /\ result' = result

\* the catch block of the step whose container call threw
Catch(c, msg) ==
    /\ thrown' = thrown \cup {c}
    /\ CASE c = "restoreProc" ->
                Return(Failure("Failed to check restore-complete marker", Some(msg)))
         [] c = "ageProc" -> Return(Failure("Failed to check container age", Some(msg)))
         [] c = "stateProc" -> Return(Failure("Failed to check container state", Some(msg)))
         [] c = "rmProc" -> pc' = "sync_start" /\ result' = result
         [] c \in {"syncProc", "timestampProc"} -> Return(Failure("Sync error", Some(msg)))

\* syncToR2(sandbox, env, {force: f}) is called
SyncCall(f) ==
    /\ pc = "idle"
    /\ syncs < MaxSyncs
    /\ ~lateRm
    /\ arch.stage \in {"none", "exited"}
    /\ pc' = "config"
    /\ force' = f
    /\ syncs' = syncs + 1
    /\ hadMarker' = remote[LastSync].exists
    /\ arch' = NoArch
    /\ UNCHANGED <<envVars, remote, result, cmds, proc, attempts, wres, seen, thrown,
                   lateRm>>
    /\ UNCHANGED outside

\* the three tests joined by && instead of ||
CredentialsPresentAny(c) == c # {}

CredentialsPresent(c) == c = Credentials

\* if (!env.R2_ACCESS_KEY_ID || !env.R2_SECRET_ACCESS_KEY || !env.CF_ACCOUNT_ID)
ConfigCheck ==
    /\ pc = "config"
    /\ IF ~CredentialsPresent(creds)
       THEN Return(Failure("R2 storage is not configured", None))
       ELSE pc' = "mount" /\ result' = result
    /\ UNCHANGED <<hadMarker, envVars, remote, syncs, force, cmds, proc, attempts, wres, seen,
                   thrown, lateRm, arch>>
    /\ UNCHANGED outside

\* const mounted = await mountR2Storage(sandbox, env)
MountR2Storage ==
    /\ pc = "mount"
    /\ cmds' = Append(cmds, "mount")
    /\ \E mounted \in BOOLEAN :
          IF ~mounted
          THEN Return(Failure("Failed to mount R2 storage", None))
          ELSE pc' = AfterMount(force) /\ result' = result
    /\ UNCHANGED <<hadMarker, envVars, remote, syncs, force, proc, attempts, wres, seen, thrown,
                   lateRm, arch>>
    /\ UNCHANGED outside

\* await sandbox.startProcess(cmd): the call throws, or the process is started
\* and the handle carries the status it had at that moment
StartProcess ==
    /\ pc \in StartPcs
    /\ LET c == CmdOf(pc) IN
       \/ /\ \E msg \in ErrMessages : Catch(c, msg)
          /\ UNCHANGED <<cmds, proc, attempts, remote>>
       \/ /\ cmds' = Append(cmds, c)
          /\ \E st \in {"starting", "running", "completed"} :
                /\ proc' = [cmd |-> c, status |-> st, ran |-> st = "completed",
                            stdout |-> IF st = "completed" THEN Output(c) ELSE ""]
                /\ remote' = IF st = "completed" THEN Effect(c, remote) ELSE remote
          /\ attempts' = 0
          /\ pc' = WaitPcOf(pc)
          /\ UNCHANGED <<result, thrown>>
    /\ UNCHANGED <<hadMarker, envVars, syncs, force, wres, seen, lateRm, arch>>
    /\ UNCHANGED outside

\* the container runs the process the call is waiting for; the status field
\* of the handle may or may not follow
RunCommand ==
    /\ pc \in WaitPcs \cup LogsPcs
    /\ ~proc.ran
    /\ \E st \in {proc.status, "completed"} :
          proc' = [proc EXCEPT !.ran = TRUE, !.status = st, !.stdout = Output(proc.cmd)]
    /\ remote' = Effect(proc.cmd, remote)
    /\ UNCHANGED <<hadMarker, envVars, syncs, pc, force, result, cmds, attempts, wres, seen, thrown,
                   lateRm, arch>>
    /\ UNCHANGED outside

\* waitForProcess: while (proc.status === 'running' && attempts < maxAttempts)
WaitForProcessGoesOn(status, n) == status = "running" /\ n < ProcPolls

WaitForProcessPoll ==
    /\ pc \in WaitPcs
    /\ WaitForProcessGoesOn(proc.status, attempts)
    /\ attempts' = attempts + 1
    /\ UNCHANGED <<hadMarker, envVars, remote, syncs, pc, force, result, cmds, proc, wres, seen,
                   thrown, lateRm, arch>>
    /\ UNCHANGED outside

WaitForProcessReturn ==
    /\ pc \in WaitPcs
    /\ ~WaitForProcessGoesOn(proc.status, attempts)
    /\ pc' = AfterWait(pc)
    /\ attempts' = 0
    /\ lateRm' = IF pc = "rm_wait" THEN ~proc.ran ELSE lateRm
    /\ silent' = (pc # "rm_wait" /\ proc.stdout = "")
    /\ UNCHANGED <<hadMarker, envVars, remote, syncs, force, result, cmds, proc, wres, seen, thrown,
                   arch>>
    /\ UNCHANGED outsideSync

\* the rm process runs after the call stopped waiting for it
LateRm ==
    /\ lateRm
    /\ lateRm' = FALSE
    /\ remote' = RemoveLastSync(remote)
    /\ UNCHANGED <<hadMarker, envVars, syncs, callVars, arch>>
    /\ UNCHANGED outside

(***************************************************************************)
(* The safety gate.                                                        *)
(***************************************************************************)
\* restoreLogs.stdout?.includes('ok')
RestoreOk(stdout) == Includes(stdout, "ok")

RestoreDetails ==
    "The .restore-complete marker is missing. The container may still be booting or is using an old startup script."

\* Check 1, after the wait: read the logs and decide
RestoreLogs ==
    /\ pc = "A_logs"
    /\ \/ /\ \E msg \in ErrMessages : Catch("restoreProc", msg)
          /\ seen' = seen
       \/ /\ seen' = [seen EXCEPT !["restoreProc"] = Some(proc.stdout)]
          /\ thrown' = thrown
          /\ IF ~RestoreOk(proc.stdout)
             THEN Return(Failure("Sync aborted: restore not complete", Some(RestoreDetails)))
             ELSE pc' = AfterCheckA(force) /\ result' = result
    /\ UNCHANGED <<hadMarker, envVars, remote, syncs, force, cmds, proc, attempts, wres, lateRm, arch>>
    /\ silent' = FALSE
    /\ UNCHANGED outsideSync

\* an empty output read as the epoch 0
BootEpochOrZero(stdout) == ParseInt(IF Trim(stdout) = "" THEN "0" ELSE Trim(stdout))

\* parseInt(ageLogs.stdout?.trim() || '', 10)
BootEpoch(stdout) == ParseInt(Trim(stdout))

\* age <= MIN_BOOT_AGE_SECONDS
TooYoungInclusive(age) == age <= MIN_BOOT_AGE_SECONDS

\* age < MIN_BOOT_AGE_SECONDS
TooYoung(age) == age < MIN_BOOT_AGE_SECONDS

NoBootDetails ==
    "The .boot-timestamp marker is missing. The container may be using an old startup script."

TooYoungDetails(age) ==
    "Container is " \o IntToString(age) \o "s old, minimum is "
        \o IntToString(MIN_BOOT_AGE_SECONDS)
        \o "s. This prevents a fresh container from overwriting backup data."

\* Check 2, after the wait
AgeLogs ==
    /\ pc = "B_logs"
    /\ \/ /\ \E msg \in ErrMessages : Catch("ageProc", msg)
          /\ seen' = seen
       \/ /\ seen' = [seen EXCEPT !["ageProc"] = Some(proc.stdout)]
          /\ thrown' = thrown
          /\ LET bootEpoch == BootEpoch(proc.stdout) IN
             IF IsNaN(bootEpoch)
             THEN Return(Failure("Sync aborted: no boot timestamp", Some(NoBootDetails)))
             ELSE LET age == now - bootEpoch.val IN
                  IF TooYoung(age)
                  THEN Return(Failure("Sync aborted: container too young",
                                      Some(TooYoungDetails(age))))
                  ELSE pc' = AfterCheckB(force) /\ result' = result
    /\ UNCHANGED <<hadMarker, envVars, remote, syncs, force, cmds, proc, attempts, wres, lateRm, arch>>
    /\ silent' = FALSE
    /\ UNCHANGED outsideSync

\* parts[i]?.trim() || '0', parsed
PartOrZero(parts, i) ==
    LET t == IF i <= Len(parts) THEN Trim(parts[i]) ELSE ""
    IN  ParseInt(IF t = "" THEN "0" ELSE t)

\* parseInt(parts[0]?.trim() || '0', 10) > 0; a comparison with NaN is false
HasTouched(stdout) ==
    LET n == PartOrZero(Split(stdout, "---"), 1) IN ~IsNaN(n) /\ n.val > 0

\* parseInt(parts[1]?.trim() || '0', 10)
StateFileCount(stdout) == PartOrZero(Split(stdout, "---"), 2)

\* !hasTouched && fileCount < 3
NoMeaningfulStateStrict(hasTouched, n) == ~hasTouched /\ ~IsNaN(n) /\ n.val < MinFileCount

\* !hasTouched && fileCount <= 3
NoMeaningfulState(hasTouched, n) == ~hasTouched /\ ~IsNaN(n) /\ n.val <= MinFileCount

\* (the dash of the source text is written as a hyphen)
NoStateDetails(n) ==
    "Container has " \o NumToString(n)
        \o " file(s) and no lastTouchedAt metadata. This looks like a fresh template - refusing to overwrite R2 backup."

\* Check 3, after the wait
StateLogs ==
    /\ pc = "C_logs"
    /\ \/ /\ \E msg \in ErrMessages : Catch("stateProc", msg)
          /\ seen' = seen
       \/ /\ seen' = [seen EXCEPT !["stateProc"] = Some(proc.stdout)]
          /\ thrown' = thrown
          /\ LET hasTouched == HasTouched(proc.stdout)
                 n == StateFileCount(proc.stdout)
             IN  IF NoMeaningfulState(hasTouched, n)
                 THEN Return(Failure("Sync aborted: no meaningful state",
                                     Some(NoStateDetails(n))))
                 ELSE pc' = AfterCheckC(force) /\ result' = result
    /\ UNCHANGED <<hadMarker, envVars, remote, syncs, force, cmds, proc, attempts, wres, lateRm, arch>>
    /\ silent' = FALSE
    /\ UNCHANGED outsideSync

(***************************************************************************)
(* The archive/upload command and the wait for its sentinel.               *)
(***************************************************************************)
Sentinels == {"SYNC_OK", "SYNC_FAIL"}

\* sentinels.some((s) => stdout.includes(s))
HasSentinel(stdout) == \E t \in Sentinels : Includes(stdout, t)

\* const proc = await sandbox.startProcess(syncCmd)
StartSync ==
    /\ pc = "sync_start"
    /\ \/ /\ \E msg \in ErrMessages : Catch("syncProc", msg)
          /\ UNCHANGED <<cmds, arch, attempts>>
       \/ /\ cmds' = Append(cmds, "syncProc")
          /\ arch' = [stage |-> "tar", stdout |-> "", stderr |-> "", tmp |-> ""]
          /\ attempts' = 0
          /\ pc' = "sync_poll"
          /\ UNCHANGED <<result, thrown>>
    /\ UNCHANGED <<hadMarker, envVars, remote, syncs, force, proc, wres, seen, lateRm>>
    /\ UNCHANGED outside

\* ... || echo SYNC_FAIL
ArchiveFails(e) == [arch EXCEPT !.stage = "exited", !.stdout = "SYNC_FAIL\n", !.stderr = e]

\* one command of syncCmd runs inside the container
ArchiveStep ==
    /\ arch.stage \notin {"none", "exited"}
    /\ \/ /\ arch.stage = "tar"
          /\ arch' = [arch EXCEPT !.stage = "cpConfig", !.tmp = ConfigArchive]
          /\ remote' = remote
       \/ /\ arch.stage = "cpConfig"
          /\ arch' = [arch EXCEPT !.stage = "cpSkills"]
          /\ remote' = [remote EXCEPT !["openclaw-backup.tar.gz"] = File(arch.tmp)]
       \/ /\ arch.stage = "cpSkills"
          /\ arch' = [arch EXCEPT !.stage = "aux"]
          /\ remote' = [remote EXCEPT !["skills-backup.tar.gz"] = File("skills")]
       \/ /\ arch.stage = "aux"
          /\ arch' = [arch EXCEPT !.stage = "date"]
          /\ remote' = [f \in RemoteFiles |->
                          IF f = "gogcli-backup.tar.gz" /\ "gogcli" \in auxStores
                          THEN File("gogcli")
                          ELSE IF f = "ms-graph-tokens.json" /\ "msgraph" \in auxStores
                          THEN File("tokens")
                          ELSE remote[f]]
       \/ /\ arch.stage = "date"
          /\ arch' = [arch EXCEPT !.stage = "echo"]
          /\ remote' = [remote EXCEPT ![LastSync] = File(DateString(syncs) \o "\n")]
       \/ /\ arch.stage = "echo"
          /\ arch' = [arch EXCEPT !.stage = "exited", !.stdout = "SYNC_OK\n"]
          /\ remote' = remote
       \/ /\ arch.stage \in {"tar", "cpConfig", "cpSkills", "date"}
          /\ \E e \in StderrOf(arch.stage) : arch' = ArchiveFails(e)
          /\ remote' = remote
    /\ UNCHANGED <<hadMarker, envVars, syncs, callVars, lateRm>>
    /\ UNCHANGED outside

\* waitForOutput: one iteration of the polling loop
WaitForOutputPoll ==
    /\ pc = "sync_poll"
    /\ attempts < SyncPolls
    /\ \/ /\ \E msg \in ErrMessages : Catch("syncProc", msg)
          /\ UNCHANGED <<attempts, wres>>
       \/ /\ IF HasSentinel(arch.stdout)
             THEN /\ wres' = [found |-> TRUE, stdout |-> arch.stdout, stderr |-> arch.stderr]
                  /\ pc' = "sync_eval"
                  /\ attempts' = attempts
             ELSE /\ attempts' = attempts + 1
                  /\ UNCHANGED <<wres, pc>>
          /\ UNCHANGED <<result, thrown>>
    /\ UNCHANGED <<hadMarker, envVars, remote, syncs, force, cmds, proc, seen, lateRm, arch>>
    /\ UNCHANGED outside

\* the read after the loop reports a sentinel as found
FinalReadFound(stdout, stderr) == [found |-> TRUE, stdout |-> stdout, stderr |-> stderr]

\* const logs = await proc.getLogs(); return { found: false, stdout: ..., stderr: ... }
FinalRead(stdout, stderr) == [found |-> FALSE, stdout |-> stdout, stderr |-> stderr]

\* waitForOutput: the loop is over, the logs are read once more
WaitForOutputFinal ==
    /\ pc = "sync_poll"
    /\ attempts >= SyncPolls
    /\ \/ /\ \E msg \in ErrMessages : Catch("syncProc", msg)
          /\ wres' = wres
       \/ /\ wres' = FinalRead(arch.stdout, arch.stderr)
          /\ pc' = "sync_eval"
          /\ UNCHANGED <<result, thrown>>
    /\ UNCHANGED <<hadMarker, envVars, remote, syncs, force, cmds, proc, attempts, seen, lateRm, arch>>
    /\ UNCHANGED outside

\* result.found alone, whichever sentinel was found
SyncSucceededAnySentinel(r) == r.found

\* result.found && result.stdout.includes('SYNC_OK')
SyncSucceeded(r) == r.found /\ Includes(r.stdout, "SYNC_OK")

\* the two details swapped for one
ErrDetailAlwaysTimedOut(r) == "Sync timed out"

\* result.stdout.includes('SYNC_FAIL') ? 'Sync command failed' : 'Sync timed out'
ErrDetail(r) == IF Includes(r.stdout, "SYNC_FAIL") THEN "Sync command failed" ELSE "Sync timed out"

\* `${errDetail}: ${result.stderr || result.stdout}`.slice(0, 500)
SyncFailDetails(r) ==
    Slice0(ErrDetail(r) \o ": " \o (IF r.stderr # "" THEN r.stderr ELSE r.stdout), DetailLimit)

\* the branch on the result of waitForOutput
SyncEval ==
    /\ pc = "sync_eval"
    /\ IF SyncSucceeded(wres)
       THEN pc' = "ts_start" /\ result' = result
       ELSE Return(Failure("Sync failed", Some(SyncFailDetails(wres))))
    /\ UNCHANGED <<hadMarker, envVars, remote, syncs, force, cmds, proc, attempts, wres, seen, thrown,
                   lateRm, arch>>
    /\ UNCHANGED outside

\* lastSync && lastSync.match(/^\d{4}-\d{2}-\d{2}/)
ValidLastSync(lastSync) == lastSync # "" /\ IsDateShaped(lastSync)

\* the timestamp read back is dropped
SuccessResultNoTimestamp(lastSync) == SyncResult(TRUE, None, None, None)

\* the result once SYNC_OK was seen: with the timestamp read back, or without
SuccessResult(lastSync) ==
    IF ValidLastSync(lastSync)
    THEN SyncResult(TRUE, Some(lastSync), None, None)
    ELSE SyncResult(TRUE, None, None, None)

\* the timestamp read-back, after the wait
TimestampLogs ==
    /\ pc = "ts_logs"
    /\ \/ /\ \E msg \in ErrMessages : Catch("timestampProc", msg)
          /\ seen' = seen
       \/ /\ seen' = [seen EXCEPT !["timestampProc"] = Some(proc.stdout)]
          /\ thrown' = thrown
          /\ Return(SuccessResult(Trim(proc.stdout)))
    /\ UNCHANGED <<hadMarker, envVars, remote, syncs, force, cmds, proc, attempts, wres, lateRm, arch>>
    /\ silent' = FALSE
    /\ UNCHANGED outsideSync

\* the caller has the result; the next call starts from a clean slate
SyncReturn ==
    /\ pc = "done"
    /\ pc' = "idle"
    /\ force' = FALSE
    /\ result' = None
    /\ cmds' = <<>>
    /\ proc' = NoProc
    /\ attempts' = 0
    /\ wres' = NoWres
    /\ seen' = NoSeen
    /\ thrown' = {}
    /\ hadMarker' = FALSE
    /\ UNCHANGED <<envVars, remote, syncs, lateRm, arch>>
    /\ UNCHANGED outside

\* the platform replaces the container by a new one that has booted from the
\* template and has not been used
ContainerReplaced ==
    /\ pc = "idle"
    /\ syncs > 0
    /\ syncs < MaxSyncs
    /\ ~lateRm
    /\ arch.stage \in {"none", "exited"}
    /\ restoreComplete' \in BOOLEAN
    /\ bootFile' \in {File("400\n"), File("401\n")}
    /\ usageCount' = 0
    /\ fileCount' = 3
    /\ auxStores' = {}
    /\ arch' = NoArch
    /\ UNCHANGED <<hadMarker, creds, now, remote, syncs, callVars, lateRm>>
    /\ UNCHANGED outside

Next ==
    \/ \E f \in BOOLEAN : SyncCall(f)
    \/ ConfigCheck
    \/ MountR2Storage
    \/ StartProcess
    \/ RunCommand
    \/ WaitForProcessPoll
    \/ WaitForProcessReturn
    \/ LateRm
    \/ RestoreLogs
    \/ AgeLogs
    \/ StateLogs
    \/ StartSync
    \/ ArchiveStep
    \/ WaitForOutputPoll
    \/ WaitForOutputFinal
    \/ SyncEval
    \/ TimestampLogs
    \/ SyncReturn
    \/ ContainerReplaced


Spec == Init /\ [][Next]_vars

(***************************************************************************)
(* Properties of syncToR2.                                                 *)
(***************************************************************************)
Res == result[1]

Returned == pc = "done"

\* command c was started by the current call
Issued(c) == \E i \in DOMAIN cmds : cmds[i] = c

\* the call reached the step of command c: it started it or the start threw
Attempted(c) == Issued(c) \/ c \in thrown

\* getLogs of probe c has returned
Read(c) == seen[c] # None

\* the call got past the mount
Mounted == Len(cmds) > 1 \/ thrown # {}

\* check 1 read its probe and found the token
PassedA == Read("restoreProc") /\ Includes(seen["restoreProc"][1], "ok")

GateAborts == {"Sync aborted: restore not complete", "Sync aborted: no boot timestamp",
               "Sync aborted: container too young", "Sync aborted: no meaningful state"}

\* C1: with the credentials present and the store mounted, a call made while
\* the restore-complete marker is absent never reaches the pre-clear or the
\* archive/upload command, forced or not; it returns success = false, and
\* when the probe's calls did not throw the error is 'Sync aborted: restore
\* not complete'.
C1_RestoreCheckNeverBypassed ==
    (pc # "idle" /\ ~restoreComplete) =>
        /\ ~Attempted("rmProc")
        /\ ~Attempted("syncProc")
        /\ pc \in {"config", "mount", "A_start", "A_wait", "A_logs", "done"}
        /\ Returned => ~Res.success
        /\ (Returned /\ Mounted /\ "restoreProc" \notin thrown) =>
              /\ Res.error = Some("Sync aborted: restore not complete")
              /\ Read("restoreProc")

C1_Witness ==
    /\ Returned
    /\ force
    /\ ~restoreComplete
    /\ Mounted
    /\ Res.error = Some("Sync aborted: restore not complete")

\* C2: a forced call runs no gate check but check 1: it never starts the
\* boot-age or the usage probe, and once check 1 has found the marker it
\* goes on to the pre-clear and the archive/upload command whatever the
\* boot-timestamp marker, the usage count and the file count are.
C2_ForceRunsOnlyCheckA ==
    (pc # "idle" /\ force) =>
        /\ ~Attempted("ageProc")
        /\ ~Attempted("stateProc")
        /\ Attempted("rmProc") => PassedA
        /\ PassedA =>
              /\ pc \in {"rm_start", "rm_wait", "sync_start", "sync_poll", "sync_eval",
                         "ts_start", "ts_wait", "ts_logs", "done"}
              /\ pc \notin {"rm_start"} => Attempted("rmProc")
              /\ Returned => (Attempted("syncProc") /\ Res.error \notin {Some(e) : e \in GateAborts})

C2_Witness ==
    /\ Returned
    /\ force
    /\ PassedA
    /\ bootFile = File("401\n")
    /\ usageCount = 0
    /\ fileCount = 2
    /\ Issued("rmProc")
    /\ Issued("syncProc")
    /\ Res.success

\* C3: when one of the three credentials is absent the call returns
\* success = false with 'R2 storage is not configured' and has issued no
\* container command: no mount, no probe, no pre-clear, no archive.
C3_NotConfigured ==
    (pc # "idle" /\ creds # Credentials) =>
        /\ pc \in {"config", "done"}
        /\ cmds = <<>>
        /\ thrown = {}
        /\ proc = NoProc
        /\ arch = NoArch
        /\ Returned => Res = SyncResult(FALSE, None, Some("R2 storage is not configured"), None)

C3_Witness ==
    /\ Returned
    /\ creds = Credentials \ {"CF_ACCOUNT_ID"}
    /\ Res.error = Some("R2 storage is not configured")

\* the boot epochs whose decimal form the age probe may print
BootEpochs == {300, 400, 401, 1001}

\* the text has no integer at its start
NoLeadingInteger(t) == Trim(t) = "" \/ CharAt(Trim(t), 1) \notin (Digits \cup {"-", "+"})

C5_MeaningfulState ==
    (Returned /\ ~force /\ Read("stateProc")) =>
        \A u \in UsageCounts, n \in FileCounts :
           seen["stateProc"][1] = IntToString(u) \o "\n---\n" \o IntToString(n) \o "\n" =>
              IF u = 0 /\ n <= 3
              THEN /\ Res.success = FALSE
                   /\ Res.error = Some("Sync aborted: no meaningful state")
                   /\ Includes(Res.details[1], "has " \o IntToString(n) \o " file(s)")
                   /\ Includes(Res.details[1], "no lastTouchedAt")
                   /\ ~Attempted("rmProc")
              ELSE /\ Attempted("rmProc")
                   /\ Res.error # Some("Sync aborted: no meaningful state")

C5_Witness ==
    /\ Returned
    /\ ~force
    /\ seen["stateProc"] = Some("0\n---\n2\n")
    /\ Res.error = Some("Sync aborted: no meaningful state")
    /\ Includes(Res.details[1], "2 file(s)")

PreClearStarted == Issued("rmProc")

\* the archive/upload command of this or an earlier call is still running
ArchiveRunning == arch.stage \notin {"none", "exited"}

\* check 1 passed, and checks 2 and 3 were read or skipped by force
PassedGate == PassedA /\ (force \/ (Read("ageProc") /\ Read("stateProc")))

FullFailDetails ==
    (IF Includes(wres.stdout, "SYNC_FAIL") THEN "Sync command failed" ELSE "Sync timed out")
        \o ": " \o (IF wres.stderr # "" THEN wres.stderr ELSE wres.stdout)

C9_FailSentinelVsTimeout ==
    (Returned /\ Issued("syncProc") /\ "syncProc" \notin thrown) =>
        /\ Includes(wres.stdout, "SYNC_FAIL") =>
              /\ Res.success = FALSE
              /\ Res.error = Some("Sync failed")
              /\ StartsWith(Res.details[1], "Sync command failed: ")
              /\ ~StartsWith(Res.details[1], "Sync timed out")
        /\ (~wres.found /\ ~HasSentinel(wres.stdout)) =>
              /\ Res.success = FALSE
              /\ Res.error = Some("Sync failed")
              /\ StartsWith(Res.details[1], "Sync timed out: ")
              /\ ~StartsWith(Res.details[1], "Sync command failed")

C9_Witness ==
    /\ Returned
    /\ wres.found
    /\ Includes(wres.stdout, "SYNC_FAIL")
    /\ Res.error = Some("Sync failed")
    /\ StartsWith(Res.details[1], "Sync command failed: ")

\* the scenario of C10: age 700 s, usage count 1, file count 8, no force
HealthyScenario ==
    /\ creds = Credentials
    /\ ~force
    /\ restoreComplete
    /\ now = 1000
    /\ bootFile = File("300\n")
    /\ usageCount = 1
    /\ fileCount = 8

\* C10: in the healthy scenario, once the three probes have reported the
\* marker, the boot epoch and the counts, the call goes through the pre-clear
\* to the archive/upload command; when waitForOutput found SYNC_OK and the
\* marker read back is the date-shaped string t the result is
\* {success: true, lastSync: t}.
C10_HealthySync ==
    (HealthyScenario /\ Returned
        /\ seen["restoreProc"] = Some("ok\n")
        /\ seen["ageProc"] = Some("300\n")
        /\ seen["stateProc"] = Some("1\n---\n8\n")) =>
        /\ Attempted("rmProc")
        /\ Attempted("syncProc")
        /\ (wres.found /\ Includes(wres.stdout, "SYNC_OK") /\ Read("timestampProc")
               /\ IsDateShaped(Trim(seen["timestampProc"][1]))) =>
              Res = SyncResult(TRUE, Some(Trim(seen["timestampProc"][1])), None, None)

C10_Witness ==
    /\ HealthyScenario
    /\ Returned
    /\ cmds = <<"mount", "restoreProc", "ageProc", "stateProc", "rmProc", "syncProc",
                "timestampProc">>
    /\ Res = SyncResult(TRUE, Some("2026-02-01T12:00:00+00:00"), None, None)

(***************************************************************************)
(* start-moltbot.sh: the boot routine, one action per section.             *)
(***************************************************************************)
MaxBoots == 2

Groups == {"config", "skills", "gogcli", "tokens"}

\* the stores a boot can find: empty, the directory layout with and without
\* its marker, one without the config, the flat legacy layout
DirSnapshot(marker, cfg) ==
    [f \in RemoteFiles |->
        CASE f = LastSync -> marker
          [] f = OrphanFile -> cfg
          [] f = "skills" -> File("skills of the snapshot")
          [] f = "gogcli" -> File("gogcli of the snapshot")
          [] f = "ms-graph-tokens.json" -> File("tokens of the snapshot")
          [] OTHER -> NoFile]

LegacySnapshot(marker) ==
    [f \in RemoteFiles |->
        CASE f = LastSync -> marker
          [] f = LegacyFile -> File("{\"v\":\"legacy\"}")
          [] f = "skills" -> File("")
          [] OTHER -> NoFile]

BootRemotes ==
    {[f \in RemoteFiles |-> NoFile]}
        \cup {DirSnapshot(m, File("{\"v\":\"snapshot\"}")) :
                 m \in {NoFile} \cup {File(t) : t \in StampTexts}}
        \cup {DirSnapshot(File(NewStamp), c) : c \in {NoFile, File(CorruptConfig)}}
        \cup {LegacySnapshot(m) : m \in {NoFile, File(NewStamp)}}

\* the containers a boot can run in: the image as built, and one that booted
\* before and holds a config, sound or corrupt, with or without a marker
ImageLocal == [NoLocal EXCEPT ![SKILLS_DIR] = File("skills of the image")]

UsedLocal(cfg, marker) ==
    [f \in LocalFiles |->
        CASE f = ConfigFile -> File(cfg)
          [] f = LastSync -> marker
          [] f = BootStamp -> File("100\n")
          [] f = RestoreMark -> File("")
          [] f = SKILLS_DIR -> File("skills of the container")
          [] OTHER -> NoFile]

BootLocals ==
    {ImageLocal}
        \cup {UsedLocal("{\"v\":\"local\"}", m) : m \in {NoFile} \cup {File(t) : t \in StampTexts}}
        \cup {UsedLocal(CorruptConfig, File(NewStamp))}

BootInit ==
    /\ creds = Credentials
    /\ now \in Nows
    /\ usageCount = 1
    /\ fileCount = 8
    /\ auxStores = AuxStores
    /\ remote \in BootRemotes
    /\ hadMarker = FALSE
    /\ syncs = 1
    /\ CallInit
    /\ lateRm = FALSE
    /\ arch \in {NoArch, [stage |-> "tar", stdout |-> "", stderr |-> "", tmp |-> ""]}
    /\ bpc = "off"
    /\ loc \in BootLocals
    /\ restoreComplete = loc[RestoreMark].exists
    /\ bootFile = loc[BootStamp]
    /\ gateway \in (IF loc = ImageLocal THEN {FALSE} ELSE BOOLEAN)
    /\ boots = 0
    /\ loc0 = loc
    /\ restored = {}
    /\ quarantined = FALSE
    /\ starts = 0
    /\ BridgeOff
    /\ wenv = NoEnv
    /\ cenv = None
    /\ penv \in ProcessEnvs
    /\ wt = NoWait
    /\ silent = FALSE
    /\ git = NoGit
    /\ race = NoRace

\* the platform runs /usr/local/bin/start-moltbot.sh
BootInvoke ==
    /\ bpc \in {"off", "exited", "started", "aborted"}
    /\ boots < MaxBoots
    /\ arch.stage \in {"none", "exited"}
    /\ bpc' = "check"
    /\ boots' = boots + 1
    /\ loc0' = loc
    /\ restored' = {}
    /\ quarantined' = FALSE
    /\ git' = [git EXCEPT !.failed = {}]
    /\ UNCHANGED <<gateway, loc, starts, syncVars, bridgeVars, wenv, cenv, penv, wt, silent, race>>

\* pgrep -f "clawdbot gateway", with no process ever found
RunningGatewayNeverFound == FALSE

\* pgrep -f "clawdbot gateway"
RunningGatewayFound == gateway

\* if pgrep ...; then exit 0; fi
AlreadyRunningCheck ==
    /\ bpc = "check"
    /\ bpc' = IF RunningGatewayFound THEN "exited" ELSE "stamp"
    /\ UNCHANGED <<gateway, loc, boots, loc0, restored, quarantined, starts, syncVars, bridgeVars, restVars>>

\* the routine goes on without the write
SkipBootTimestamp ==
    /\ bpc = "stamp"
    /\ bpc' = "quarantine"
    /\ UNCHANGED <<gateway, loc, boots, loc0, restored, quarantined, starts, restoreComplete,
                   bootFile, syncOther, bridgeVars, restVars>>

\* date +%s > "$CONFIG_DIR/.boot-timestamp"; bootFile is this file as the
\* worker's probes read it, CONFIG_DIR being the directory syncToR2 looks
\* into (the script calls it /root/.clawdbot, sync.ts /root/.openclaw)
WriteBootTimestamp ==
    /\ bpc = "stamp"
    /\ loc' = [loc EXCEPT ![BootStamp] = File(IntToString(now) \o "\n")]
    /\ bootFile' = File(IntToString(now) \o "\n")
    /\ bpc' = "quarantine"
    /\ UNCHANGED <<gateway, boots, loc0, restored, quarantined, starts, restoreComplete,
                   syncOther, bridgeVars, restVars>>

\* the config alone is removed
QuarantineConfigOnly(l) ==
    IF Corrupt(l[ConfigFile]) THEN [l EXCEPT ![ConfigFile] = NoFile] ELSE l

\* rm -f "$CONFIG_FILE"; rm -f "$CONFIG_DIR/.last-sync" when the config is corrupt
Quarantine(l) ==
    IF Corrupt(l[ConfigFile])
    THEN [l EXCEPT ![ConfigFile] = NoFile, ![LastSync] = NoFile]
    ELSE l

\* the quarantine before the restore
QuarantineLocal ==
    /\ bpc = "quarantine"
    /\ loc' = Quarantine(loc)
    /\ quarantined' = Corrupt(loc[ConfigFile])
    /\ bpc' = "config"
    /\ UNCHANGED <<gateway, boots, loc0, restored, starts, syncVars, bridgeVars, restVars>>

\* [ "$R2_EPOCH" -ge "$LOCAL_EPOCH" ]
NewerOrSame(r2Time, localTime) == EpochOrZero(r2Time) >= EpochOrZero(localTime)

\* [ "$R2_EPOCH" -gt "$LOCAL_EPOCH" ]
Newer(r2Time, localTime) == EpochOrZero(r2Time) > EpochOrZero(localTime)

\* the test for the snapshot's marker left out
ShouldRestoreWithoutMarker(r, l) ==
    IF ~l[LastSync].exists \/ ~r[LastSync].exists THEN TRUE
    ELSE Newer(CommandSubst(r[LastSync].text), CommandSubst(l[LastSync].text))

\* should_restore_from_r2
ShouldRestoreFromR2(r, l) ==
    IF ~r[LastSync].exists THEN FALSE
    ELSE IF ~l[LastSync].exists THEN TRUE
    ELSE Newer(CommandSubst(r[LastSync].text), CommandSubst(l[LastSync].text))

\* cp -a "$src/." "$dst/": the entries of src laid over those of dst
Overlay(dst, src) ==
    IF ~dst.exists \/ dst.text = "" \/ dst.text = src.text
    THEN src
    ELSE File(src.text \o " over " \o dst.text)

\* a non-empty directory of the store
NonEmptyDir(f) == f.exists /\ f.text # ""

\* the config group: the directory layout, else the flat legacy layout
RestoreConfig ==
    /\ bpc = "config"
    /\ bpc' = "skills"
    /\ IF remote[OrphanFile].exists /\ ShouldRestoreFromR2(remote, loc)
       THEN /\ \E copied \in BOOLEAN :
                 loc' = [loc EXCEPT ![ConfigFile] = remote[OrphanFile],
                                    ![LastSync] = IF copied THEN remote[LastSync] ELSE @]
            /\ restored' = restored \cup {"config"}
       ELSE IF ~remote[OrphanFile].exists /\ remote[LegacyFile].exists
               /\ ShouldRestoreFromR2(remote, loc)
       THEN /\ loc' = [f \in LocalFiles |->
                          IF f \in RemoteFiles /\ remote[f].exists
                          THEN (IF f \in SnapshotDirs THEN Overlay(loc[f], remote[f])
                                ELSE remote[f])
                          ELSE loc[f]]
            /\ restored' = restored \cup {"config"}
       ELSE UNCHANGED <<loc, restored>>
    /\ UNCHANGED <<gateway, boots, loc0, quarantined, starts, syncVars, bridgeVars, restVars>>

\* the skills group
RestoreSkills ==
    /\ bpc = "skills"
    /\ bpc' = "gogcli"
    /\ IF NonEmptyDir(remote["skills"]) /\ ShouldRestoreFromR2(remote, loc)
       THEN /\ loc' = [loc EXCEPT ![SKILLS_DIR] = Overlay(@, remote["skills"])]
            /\ restored' = restored \cup {"skills"}
       ELSE UNCHANGED <<loc, restored>>
    /\ UNCHANGED <<gateway, boots, loc0, quarantined, starts, syncVars, bridgeVars, restVars>>

\* the gog credential store
RestoreGog ==
    /\ bpc = "gogcli"
    /\ bpc' = "tokens"
    /\ IF NonEmptyDir(remote["gogcli"]) /\ ShouldRestoreFromR2(remote, loc)
       THEN /\ loc' = [loc EXCEPT ![GOG_CONFIG_DIR] = Overlay(@, remote["gogcli"])]
            /\ restored' = restored \cup {"gogcli"}
       ELSE UNCHANGED <<loc, restored>>
    /\ UNCHANGED <<gateway, boots, loc0, quarantined, starts, syncVars, bridgeVars, restVars>>

\* the ms-graph token cache
RestoreTokens ==
    /\ bpc = "tokens"
    /\ bpc' = "postquarantine"
    /\ IF remote["ms-graph-tokens.json"].exists /\ ShouldRestoreFromR2(remote, loc)
       THEN /\ loc' = [loc EXCEPT ![MS_GRAPH_TOKEN_FILE] = remote["ms-graph-tokens.json"]]
            /\ restored' = restored \cup {"tokens"}
       ELSE UNCHANGED <<loc, restored>>
    /\ UNCHANGED <<gateway, boots, loc0, quarantined, starts, syncVars, bridgeVars, restVars>>

\* set -e: a cp, mkdir or chmod of a restore section, the cp of the template
\* or a command of the configuration sections fails and the script ends there
BootAborts ==
    /\ \/ /\ bpc = "config"
          /\ remote[OrphanFile].exists \/ remote[LegacyFile].exists
          /\ ShouldRestoreFromR2(remote, loc)
       \/ /\ bpc = "skills"
          /\ NonEmptyDir(remote["skills"]) /\ ShouldRestoreFromR2(remote, loc)
       \/ /\ bpc = "gogcli"
          /\ NonEmptyDir(remote["gogcli"]) /\ ShouldRestoreFromR2(remote, loc)
       \/ /\ bpc = "tokens"
          /\ remote["ms-graph-tokens.json"].exists /\ ShouldRestoreFromR2(remote, loc)
       \/ /\ bpc = "template"
          /\ ~loc[ConfigFile].exists
       \/ bpc = "configure"
    /\ bpc' = "aborted"
    /\ UNCHANGED <<gateway, loc, boots, loc0, restored, quarantined, starts, syncVars, bridgeVars, restVars>>

\* the quarantine after the restore
QuarantineRestored ==
    /\ bpc = "postquarantine"
    /\ loc' = Quarantine(loc)
    /\ bpc' = "template"
    /\ UNCHANGED <<gateway, boots, loc0, restored, quarantined, starts, syncVars, bridgeVars, restVars>>

\* the routine goes on to the marker without a config
TemplateLeftOut ==
    /\ bpc = "template"
    /\ bpc' = "mark"
    /\ UNCHANGED <<gateway, loc, boots, loc0, restored, quarantined, starts, syncVars, bridgeVars, restVars>>

\* cp "$TEMPLATE_FILE" "$CONFIG_FILE" when no config exists
TemplateInit ==
    /\ bpc = "template"
    /\ loc' = IF loc[ConfigFile].exists THEN loc
              ELSE [loc EXCEPT ![ConfigFile] = File(TemplateConfig)]
    /\ bpc' = "mark"
    /\ UNCHANGED <<gateway, boots, loc0, restored, quarantined, starts, syncVars, bridgeVars, restVars>>

\* the routine goes on to the configuration sections without the marker
RestoreCompleteLeftOut ==
    /\ bpc = "mark"
    /\ bpc' = "git"
    /\ UNCHANGED <<gateway, loc, boots, loc0, restored, quarantined, starts, restoreComplete,
                   bootFile, syncOther, bridgeVars, restVars>>

\* touch "$CONFIG_DIR/.restore-complete"
WriteRestoreComplete ==
    /\ bpc = "mark"
    /\ loc' = [loc EXCEPT ![RestoreMark] = IF @.exists THEN @ ELSE File("")]
    /\ restoreComplete' = TRUE
    /\ bpc' = "git"
    /\ UNCHANGED <<gateway, boots, loc0, restored, quarantined, starts, bootFile, syncOther,
                   bridgeVars, restVars>>

\* the commands of the git section that can fail
GitSteps == {"init", "remote", "lsmain", "lsmaster", "fetch", "reset"}

\* the failures looked at: none, one command, or both branch checks (the
\* remote cannot be reached)
GitFailures == {{}} \cup {{g} : g \in GitSteps} \cup {{"lsmain", "lsmaster"}}

\* /root/clawd after the section: the branch it was reset to, when every
\* command on the way to it succeeded
Workspace(before, failed) ==
    IF failed \cap {"init", "remote", "fetch", "reset"} # {} THEN before
    ELSE IF "lsmain" \notin failed THEN "origin/main"
    ELSE IF "lsmaster" \notin failed THEN "origin/master"
    ELSE before

\* a failing git command ends the boot routine as set -e would
AfterGitErrexit(failed) == IF failed = {} THEN "configure" ELSE "aborted"

\* ( set -e; ... ) || { echo WARNING }: the parent goes on in both cases
AfterGit(failed) == "configure"

\* [ -n "$GITHUB_PAT" ] && [ -n "$GITHUB_REPO" ]
GitConfigured(env) == env.GITHUB_PAT # None /\ env.GITHUB_REPO # None

\* if [ -n "$GITHUB_PAT" ] && [ -n "$GITHUB_REPO" ]; then ( ... ) || { ... }; fi
RestoreGitWorkspace ==
    /\ bpc = "git"
    /\ \E failed \in (IF GitConfigured(penv) THEN GitFailures ELSE {{}}) :
          /\ git' = [git EXCEPT !.failed = failed,
                                !.workspace = IF GitConfigured(penv) THEN Workspace(@, failed)
                                              ELSE @]
          /\ bpc' = AfterGit(failed)
    /\ UNCHANGED <<gateway, loc, boots, loc0, restored, quarantined, starts, syncVars, bridgeVars,
                   wenv, cenv, penv, wt, silent, race>>

\* a JSON string member, and a member whose value is given as JSON text
Member(k, json) == "\"" \o k \o "\":" \o json

Quoted(v) == "\"" \o v \o "\""

\* if (process.env.TELEGRAM_BOT_TOKEN) { ... delete config.channels.telegram.dm }
TelegramSection(env) ==
    IF env.TELEGRAM_BOT_TOKEN = None THEN <<>>
    ELSE <<Member("telegram",
                  "{" \o Member("botToken", Quoted(env.TELEGRAM_BOT_TOKEN[1]))
                      \o "," \o Member("enabled", "true")
                      \o (IF env.TELEGRAM_DM_POLICY = None THEN ""
                          ELSE "," \o Member("dmPolicy", Quoted(env.TELEGRAM_DM_POLICY[1])))
                      \o "}")>>

\* if (process.env.DISCORD_BOT_TOKEN) { ... delete config.channels.discord.dm }
DiscordSection(env) ==
    IF env.DISCORD_BOT_TOKEN = None THEN <<>>
    ELSE <<Member("discord",
                  "{" \o Member("token", Quoted(env.DISCORD_BOT_TOKEN[1]))
                      \o "," \o Member("enabled", "true") \o "}")>>

\* if (SLACK_BOT_TOKEN && SLACK_APP_TOKEN) { ...; if (SLACK_DM_POLICY) slack.dm = {...} }
SlackSection(env) ==
    IF env.SLACK_BOT_TOKEN = None \/ env.SLACK_APP_TOKEN = None THEN <<>>
    ELSE <<Member("slack",
                  "{" \o Member("botToken", Quoted(env.SLACK_BOT_TOKEN[1]))
                      \o "," \o Member("appToken", Quoted(env.SLACK_APP_TOKEN[1]))
                      \o "," \o Member("enabled", "true")
                      \o "," \o Member("groupPolicy", Quoted("open"))
                      \o (IF env.SLACK_DM_POLICY = None THEN ""
                          ELSE "," \o Member("dm",
                                   "{" \o Member("enabled", "true") \o ","
                                       \o Member("policy", Quoted(env.SLACK_DM_POLICY[1]))
                                       \o "}"))
                      \o "}")>>

RECURSIVE JoinMembers(_)
JoinMembers(ms) ==
    IF ms = <<>> THEN ""
    ELSE IF Len(ms) = 1 THEN ms[1]
    ELSE ms[1] \o "," \o JoinMembers(Tail(ms))

\* config.channels after the three channel blocks
ChannelsObject(env) ==
    "{" \o JoinMembers(TelegramSection(env) \o DiscordSection(env) \o SlackSection(env)) \o "}"

\* what the node script writes back: the config with the gateway settings
\* and the channel settings of the environment.  The configs that reach the
\* script carry channel settings only when an earlier run of the script, in
\* the same environment, wrote them.
WithOverrides(t, env) ==
    LET g == IF Includes(t, "\"gateway\":") THEN t
             ELSE "{\"gateway\":{\"port\":18789,\"mode\":\"local\"}," \o SubSeq(t, 2, Len(t))
    IN  IF Includes(g, "\"channels\":") THEN g
        ELSE SubSeq(g, 1, Len(g) - 1) \o "," \o Member("channels", ChannelsObject(env)) \o "}"

\* the sections between the marker and the gateway: git workspace, config
\* from the environment, tool configs
Configure ==
    /\ bpc = "configure"
    /\ loc' = [loc EXCEPT ![ConfigFile] = File(WithOverrides(@.text, penv))]
    /\ bpc' = "launch"
    /\ UNCHANGED <<gateway, boots, loc0, restored, quarantined, starts, syncVars, bridgeVars, restVars>>

\* exec clawdbot gateway ...
StartGateway ==
    /\ bpc = "launch"
    /\ gateway' = TRUE
    /\ starts' = starts + 1
    /\ bpc' = "started"
    /\ UNCHANGED <<loc, boots, loc0, restored, quarantined, syncVars, bridgeVars, restVars>>

\* the gateway process exits or is killed
GatewayExits ==
    /\ bpc \in {"off", "exited", "started"}
    /\ gateway
    /\ boots < MaxBoots
    /\ gateway' = FALSE
    /\ UNCHANGED <<bpc, loc, boots, loc0, restored, quarantined, starts, syncVars, bridgeVars, restVars>>

BootNext ==
    \/ BootInvoke
    \/ AlreadyRunningCheck
    \/ WriteBootTimestamp
    \/ QuarantineLocal
    \/ RestoreConfig
    \/ RestoreSkills
    \/ RestoreGog
    \/ RestoreTokens
    \/ QuarantineRestored
    \/ TemplateInit
    \/ WriteRestoreComplete
    \/ RestoreGitWorkspace
    \/ BootAborts
    \/ Configure
    \/ StartGateway
    \/ GatewayExits
    \/ ArchiveStep

BootSpec == BootInit /\ [][BootNext]_vars

(***************************************************************************)
(* Properties of the boot routine and of its round trip with syncToR2.     *)
(***************************************************************************)
\* the archive/upload command has run to its success sentinel
SnapshotWritten == arch.stage = "exited" /\ Includes(arch.stdout, "SYNC_OK")

\* the boot routine has written restore-complete and not yet applied the
\* environment to the config
RestoreDone == bpc = "configure"

\* the current boot began in the image as built: no config, no local marker
FreshBoot == boots > 0 /\ loc0 = ImageLocal

\* C11: once a sync has written the snapshot (its marker included), a boot of
\* a fresh container restores the config and the skills groups, and the
\* container then holds the config tree and the skills tree the archives
\* were packed from.
C11_RoundTrip ==
    (SnapshotWritten /\ FreshBoot /\ RestoreDone /\ remote[LastSync].exists) =>
        /\ {"config", "skills"} \subseteq restored
        /\ "config " \o loc[ConfigFile].text = remote["openclaw-backup.tar.gz"].text
        /\ loc[SKILLS_DIR].text = remote["skills-backup.tar.gz"].text

\* the error each catch block of syncToR2 reports
CatchError(c) ==
    CASE c = "restoreProc" -> "Failed to check restore-complete marker"
      [] c = "ageProc" -> "Failed to check container age"
      [] c = "stateProc" -> "Failed to check container state"
      [] c \in {"syncProc", "timestampProc"} -> "Sync error"

GatePcs == {"A_start", "A_wait", "A_logs", "B_start", "B_wait", "B_logs",
            "C_start", "C_wait", "C_logs", "rm_start", "rm_wait"}

\* C12: no exception leaves syncToR2.  A container call that throws in check
\* A, B or C, in the archive/upload step or in the read-back makes the call
\* return at once a result with success = false, the error of that step and
\* the exception's message as details; one that throws in the pre-clear is
\* swallowed and the call goes on to the archive/upload command.
C12_NoExceptionEscapes ==
    /\ pc # "escaped"
    /\ \A c \in thrown \ {"rmProc"} :
          /\ Returned
          /\ thrown \ {"rmProc"} = {c}
          /\ Res.success = FALSE
          /\ Res.lastSync = None
          /\ Res.error = Some(CatchError(c))
          /\ Res.details # None /\ Res.details[1] \in ErrMessages
    /\ "rmProc" \in thrown =>
          /\ pc \notin GatePcs
          /\ ~Issued("rmProc")
          /\ Returned => Attempted("syncProc")

C12_Witness ==
    /\ Returned
    /\ thrown = {"rmProc", "timestampProc"}
    /\ Issued("syncProc")
    /\ Res = Failure("Sync error", Some("Container not running"))

\* the order of the marker texts the model uses; a text that is no date
\* counts as older than every date
StampRank(f) ==
    CASE f.text = OldStamp -> 1
      [] f.text = NewStamp -> 2
      [] OTHER -> 0

\* the local marker the restore decision starts from: the one the container
\* held, unless the quarantine removed it
LocalMarker0 == IF quarantined THEN NoFile ELSE loc0[LastSync]

\* the snapshot's marker exists and is strictly newer than the local one, or
\* there is no local one
SnapshotWins ==
    /\ remote[LastSync].exists
    /\ (~LocalMarker0.exists \/ StampRank(remote[LastSync]) > StampRank(LocalMarker0))

\* group g has something to restore in the snapshot
Present(g) ==
    CASE g = "config" -> remote[OrphanFile].exists \/ remote[LegacyFile].exists
      [] g = "skills" -> remote["skills"].exists /\ remote["skills"].text # ""
      [] g = "gogcli" -> remote["gogcli"].exists /\ remote["gogcli"].text # ""
      [] g = "tokens" -> remote["ms-graph-tokens.json"].exists

\* the boot routine is past its four restore sections
PastRestore ==
    bpc \in {"postquarantine", "template", "mark", "git", "configure", "launch", "started"}

\* C13: a boot whose snapshot holds something to restore restores from it
\* exactly when the snapshot's marker exists and either the container has no
\* local marker or the snapshot's is strictly newer; without a snapshot
\* marker, or with one equal to or older than the local one, nothing is
\* restored and the restore sections leave the container's files as they were.
C13_RestoreDecision ==
    /\ (PastRestore /\ \E g \in Groups : Present(g)) => (restored # {} <=> SnapshotWins)
    /\ (bpc \in {"skills", "gogcli", "tokens", "postquarantine"} /\ Present("config")) =>
          ("config" \in restored <=> SnapshotWins)
    /\ (PastRestore /\ ~SnapshotWins) => restored = {}
    /\ (bpc = "postquarantine" /\ ~SnapshotWins) =>
          \A f \in LocalFiles \ {BootStamp} :
              loc[f] = IF quarantined /\ f \in {ConfigFile, LastSync} THEN NoFile ELSE loc0[f]

C13_Witness ==
    /\ bpc = "started"
    /\ loc0[LastSync] = File(OldStamp)
    /\ remote[LastSync] = File(NewStamp)
    /\ ~quarantined
    /\ "config" \in restored
    /\ loc[LastSync] = File(NewStamp)

\* C14: in one boot every group the snapshot holds is restored or skipped on
\* the markers the boot started from: a group is restored exactly when the
\* snapshot's marker wins over the local one the boot began with, whatever
\* was restored before it.
C14_GroupsIndependent ==
    PastRestore => \A g \in Groups : Present(g) => (g \in restored <=> SnapshotWins)

\* C15: a boot routine that finds the gateway running exits at once: it
\* leaves the container's files (markers and config), the store and the
\* gateway as they are and starts no gateway.
C15_IdempotentBoot ==
    [][(bpc = "check" /\ gateway) =>
          /\ bpc' = "exited"
          /\ loc' = loc
          /\ remote' = remote
          /\ gateway' = gateway
          /\ starts' = starts]_vars

C15_Witness ==
    /\ bpc = "exited"
    /\ gateway
    /\ boots = 2
    /\ starts = 1
    /\ loc = loc0
    /\ loc[BootStamp] = File("1000\n")

(***************************************************************************)
(* routes/bridge.ts: the auth middleware, the upgrade handler, the relay.  *)
(***************************************************************************)
MaxEvents == 2

UpperLetters == "ABCDEFGHIJKLMNOPQRSTUVWXYZ"

LowerLetters == "abcdefghijklmnopqrstuvwxyz"

LowerChar(c) ==
    IF \E i \in 1..26 : CharAt(UpperLetters, i) = c
    THEN CharAt(LowerLetters, CHOOSE i \in 1..26 : CharAt(UpperLetters, i) = c)
    ELSE c

\* String.prototype.toLowerCase
RECURSIVE ToLowerCase(_)
ToLowerCase(t) ==
    IF t = "" THEN "" ELSE LowerChar(CharAt(t, 1)) \o ToLowerCase(SubSeq(t, 2, Len(t)))

\* URLSearchParams.get: the first value of the name, if any
ParamGet(ps, k) ==
    IF \E i \in DOMAIN ps : ps[i][1] = k
    THEN Some(ps[CHOOSE i \in DOMAIN ps : ps[i][1] = k /\ \A j \in 1..(i - 1) : ps[j][1] # k][2])
    ELSE None

\* URLSearchParams.delete: every pair of the name goes
ParamDelete(ps, k) == SelectSeq(ps, LAMBDA q : q[1] # k)

\* URLSearchParams.set: the first pair of the name takes the value and the
\* others go; without one the pair is appended
ParamSet(ps, k, v) ==
    IF \E i \in DOMAIN ps : ps[i][1] = k
    THEN LET first == CHOOSE i \in DOMAIN ps : ps[i][1] = k /\ \A j \in 1..(i - 1) : ps[j][1] # k
         IN  SubSeq(ps, 1, first - 1) \o <<<<k, v>>>>
                 \o ParamDelete(SubSeq(ps, first + 1, Len(ps)), k)
    ELSE Append(ps, <<k, v>>)

\* the comparison stops at the lengths
SameLength(a, b) == Len(a) = Len(b)

\* timingSafeEqual
TimingSafeEqual(a, b) ==
    IF Len(a) # Len(b) THEN FALSE
    ELSE \A i \in 1..Len(a) : CharAt(a, i) = CharAt(b, i)

\* !value of an optional string: absent or empty
Falsy(x) == x = None \/ x[1] = ""

BridgeSecret == "s3cret"

GatewayToken == "gw-token"

\* the query strings the model tries
SecretParam == <<"secret", BridgeSecret>>

ClientToken == <<"token", "client-token">>

ParamChoices ==
    {<<>>,
     <<<<"secret", "">>>>,
     <<<<"secret", "s3cre7">>>>,
     <<<<"secret", "s3cret!">>>>,
     <<SecretParam>>,
     <<SecretParam, ClientToken>>,
     <<ClientToken, SecretParam, <<"token", "second">>>>,
     <<SecretParam, <<"secret", "again">>, <<"session", "7">>>>}

UpgradeChoices == {None, Some("websocket"), Some("WebSocket"), Some("h2c")}

ConnectionChoices ==
    {None, Some("Upgrade"), Some("keep-alive, Upgrade"), Some("keep-alive"), Some("upgrade")}

\* the close events a socket can receive
CloseCodes == {1000, 1006, 4000}

LongReason == Doubled("r", 7)

CloseReasons == {"", "bye", SubSeq(LongReason, 1, 123), SubSeq(LongReason, 1, 124)}

MessageData == {"ping", "pong"}

\* the endpoints of the router: GET /, GET /health, GET /file, PUT /file
Routes == {"relay", "health", "fileGet", "filePut"}

FilePath == <<"path", "/root/clawd/notes.txt">>

\* the query strings tried on the other endpoints
PlainParamChoices ==
    {<<>>,
     <<FilePath>>,
     <<<<"secret", "s3cre7">>, FilePath>>,
     <<SecretParam>>,
     <<SecretParam, <<"path", "">>>>,
     <<FilePath, SecretParam>>}

\* codes a Close frame cannot carry (RFC 6455 7.4.1); what close() does with
\* one is the platform's choice
ReservedCodes == {1005, 1006, 1015}

Peer(s) == IF s = "serverWs" THEN "containerWs" ELSE "serverWs"

BridgeInit ==
    /\ creds = Credentials
    /\ now \in Nows
    /\ restoreComplete = TRUE
    /\ bootFile = File("300\n")
    /\ usageCount = 1
    /\ fileCount = 8
    /\ auxStores = {}
    /\ remote = [f \in RemoteFiles |-> NoFile]
    /\ hadMarker = FALSE
    /\ syncs = 0
    /\ CallInit
    /\ lateRm = FALSE
    /\ arch = NoArch
    /\ BootOff
    /\ BridgeOff
    /\ RestOff

\* a request for /bridge reaches the worker
BridgeRequest ==
    /\ hpc = "idle"
    /\ \/ \E u \in UpgradeChoices, cn \in ConnectionChoices, ps \in ParamChoices :
             req' = [route |-> "relay", upgrade |-> u, connection |-> cn, params |-> ps]
       \/ \E r \in Routes \ {"relay"}, ps \in PlainParamChoices :
             req' = [route |-> r, upgrade |-> None, connection |-> None, params |-> ps]
    /\ \E sec \in {None, Some(""), Some(BridgeSecret)},
             tok \in {None, Some(""), Some(GatewayToken)} :
          benv' = [secret |-> sec, token |-> tok]
    /\ hpc' = "auth"
    /\ UNCHANGED <<gwReq, resp, calls, ws, events, sent, dropped, closeCalls, syncVars, bootVars, restVars>>

Respond(status, error) ==
    /\ resp' = [status |-> status, error |-> error]
    /\ hpc' = "done"

\* next(): the handler registered for the request's method and path
HandlerOf(route) ==
    CASE route = "relay" -> "upgrade"
      [] route = "health" -> "health"
      [] OTHER -> "file"

\* bridge.use('*', ...)
AuthMiddleware ==
    /\ hpc = "auth"
    /\ LET providedSecret == ParamGet(req.params, "secret")
       IN  IF Falsy(benv.secret) THEN Respond(503, "Bridge endpoint not configured")
           ELSE IF Falsy(providedSecret) \/ ~TimingSafeEqual(providedSecret[1], benv.secret[1])
           THEN Respond(401, "Unauthorized")
           ELSE hpc' = HandlerOf(req.route) /\ resp' = resp
    /\ UNCHANGED <<req, benv, gwReq, calls, ws, events, sent, dropped, closeCalls, syncVars,
                   bootVars, restVars>>

\* the query of gatewayUrl with the secret left in
GatewayParamsKeepSecret(ps, token) ==
    IF ~Falsy(token) THEN ParamSet(ps, "token", token[1]) ELSE ps

\* the query of gatewayUrl: secret deleted, token set when one is configured
GatewayParams(ps, token) ==
    LET clean == ParamDelete(ps, "secret")
    IN  IF ~Falsy(token) THEN ParamSet(clean, "token", token[1]) ELSE clean

\* the Connection header of the request for the gateway
GatewayConnection(cn) ==
    IF cn # None /\ Includes(ToLowerCase(cn[1]), "upgrade") THEN cn[1] ELSE "Upgrade"

\* any Upgrade header will do
AnyUpgradeHeader(u) == u # None

\* upgradeHeader?.toLowerCase() === 'websocket'
IsWebSocketUpgrade(u) == u # None /\ ToLowerCase(u[1]) = "websocket"

\* the first part of the handler, up to the await of ensureMoltbotGateway
UpgradeHandler ==
    /\ hpc = "upgrade"
    /\ IF ~IsWebSocketUpgrade(req.upgrade)
       THEN /\ Respond(426, "WebSocket upgrade required")
            /\ UNCHANGED <<gwReq, calls>>
       ELSE /\ gwReq' = Some([path |-> "/",
                              params |-> GatewayParams(req.params, benv.token),
                              connection |-> GatewayConnection(req.connection),
                              upgrade |-> req.upgrade[1]])
            /\ calls' = Append(calls, "ensureMoltbotGateway")
            /\ hpc' = "ensure"
            /\ resp' = resp
    /\ UNCHANGED <<req, benv, ws, events, sent, dropped, closeCalls, syncVars, bootVars, restVars>>

\* the catch block falls through to the connection
EnsureFailedIgnored ==
    /\ calls' = Append(Append(calls, "ensure threw"), "wsConnect")
    /\ hpc' = "connect"
    /\ resp' = resp

\* catch (error) { return c.json({ error: 'Gateway not ready', ... }, 502) }
EnsureFailed ==
    /\ calls' = Append(calls, "ensure threw")
    /\ Respond(502, "Gateway not ready")

\* await ensureMoltbotGateway(sandbox, c.env) settles
EnsureSettles ==
    /\ hpc = "ensure"
    /\ \/ EnsureFailed
       \/ /\ calls' = Append(Append(calls, "ensure returned"), "wsConnect")
          /\ hpc' = "connect"
          /\ resp' = resp
    /\ UNCHANGED <<req, benv, gwReq, ws, events, sent, dropped, closeCalls, syncVars, bootVars, restVars>>

\* await sandbox.wsConnect(request, MOLTBOT_PORT) settles; with a socket in
\* the response both sides are accepted and the listeners attached
WsConnectSettles ==
    /\ hpc = "connect"
    /\ \/ /\ Respond(502, "wsConnect failed")
          /\ ws' = ws
       \/ /\ Respond(502, "Gateway WebSocket unavailable")
          /\ ws' = ws
       \/ /\ ws' = [s \in Sockets |-> OPEN]
          /\ resp' = [status |-> 101, error |-> ""]
          /\ hpc' = "relay"
    /\ UNCHANGED <<req, benv, gwReq, calls, events, sent, dropped, closeCalls, syncVars,
                   bootVars, restVars>>

\* the test of the message listeners left out
DestinationAny(readyState) == TRUE

\* containerWs.readyState === WebSocket.OPEN
DestinationOpen(readyState) == readyState = OPEN

\* the 'message' listener of socket s
OnMessage(s, data) ==
    /\ hpc = "relay"
    /\ Len(events) < MaxEvents
    /\ ws[s] \in {OPEN, CLOSING}
    /\ events' = Append(events, [kind |-> "message", on |-> s, code |-> 0, reason |-> data])
    /\ LET m == [to |-> Peer(s), data |-> data, readyState |-> ws[Peer(s)],
                 ev |-> Len(events) + 1]
       IN  IF DestinationOpen(ws[Peer(s)])
           THEN sent' = Append(sent, m) /\ dropped' = dropped
           ELSE dropped' = Append(dropped, m) /\ sent' = sent
    /\ UNCHANGED <<hpc, req, benv, gwReq, resp, calls, ws, closeCalls, syncVars, bootVars, restVars>>

\* reason.slice(0, 120) + '...' for a reason longer than 123
Truncated(reason) ==
    IF Len(reason) > 123 THEN Slice0(reason, 120) \o "..." ELSE reason

\* the reason the 'close' listener of socket s passes on
ClosePassedReason(s, reason) == IF s = "containerWs" THEN Truncated(reason) ELSE reason

\* the code passed on is always the normal closure
ClosePassedNormal(code) == 1000

\* event.code
ClosePassedCode(code) == code

\* socket p after close(code, ...) was called on it
AfterCloseCall(p, code, accepted) ==
    IF ws[p] = OPEN /\ accepted THEN CLOSING ELSE ws[p]

\* the 'close' listener of socket s
OnClose(s, code, reason) ==
    /\ hpc = "relay"
    /\ Len(events) < MaxEvents
    /\ ws[s] # CLOSED
    /\ events' = Append(events, [kind |-> "close", on |-> s, code |-> code, reason |-> reason])
    /\ closeCalls' = Append(closeCalls, [on |-> Peer(s), code |-> ClosePassedCode(code),
                                         reason |-> ClosePassedReason(s, reason),
                                         ev |-> Len(events) + 1])
    /\ \E accepted \in (IF code \in ReservedCodes THEN BOOLEAN ELSE {TRUE}) :
          ws' = [ws EXCEPT ![s] = CLOSED, ![Peer(s)] = AfterCloseCall(Peer(s), code, accepted)]
    /\ UNCHANGED <<hpc, req, benv, gwReq, resp, calls, sent, dropped, syncVars, bootVars, restVars>>

\* the client's side is closed as going away
ErrorCloseCodePerSide(s) == IF s = "serverWs" THEN 1011 ELSE 1001

\* the code of the 'error' listeners
ErrorCloseCode(s) == 1011

ErrorCloseReason(s) == IF s = "serverWs" THEN "Client error" ELSE "Container error"

\* the 'error' listener of socket s
OnError(s) ==
    /\ hpc = "relay"
    /\ Len(events) < MaxEvents
    /\ events' = Append(events, [kind |-> "error", on |-> s, code |-> 0, reason |-> ""])
    /\ closeCalls' = Append(closeCalls, [on |-> Peer(s), code |-> ErrorCloseCode(s),
                                         reason |-> ErrorCloseReason(s),
                                         ev |-> Len(events) + 1])
    /\ ws' = [ws EXCEPT ![Peer(s)] = AfterCloseCall(Peer(s), ErrorCloseCode(s), TRUE)]
    /\ UNCHANGED <<hpc, req, benv, gwReq, resp, calls, sent, dropped, syncVars, bootVars, restVars>>

\* bridge.get('/health', ...)
HealthHandler ==
    /\ hpc = "health"
    /\ calls' = Append(calls, "listProcesses")
    /\ Respond(200, "")
    /\ UNCHANGED <<req, benv, gwReq, ws, events, sent, dropped, closeCalls, syncVars, bootVars, restVars>>

\* proc.exitCode after waitForProcess: null while running
ExitCodes == {None, Some(0), Some(1)}

\* bridge.get('/file', ...) and bridge.put('/file', ...)
FileHandler ==
    /\ hpc = "file"
    /\ IF Falsy(ParamGet(req.params, "path"))
       THEN Respond(400, "Missing ?path= query parameter") /\ calls' = calls
       ELSE /\ calls' = Append(calls, "startProcess")
            /\ \/ Respond(500, IF req.route = "fileGet" THEN "Failed to read file"
                                 ELSE "Failed to write file")
               \/ \E exitCode \in ExitCodes :
                     IF exitCode # None /\ exitCode[1] # 0
                     THEN IF req.route = "fileGet" THEN Respond(404, "File read failed")
                          ELSE Respond(500, "File write failed")
                     ELSE Respond(200, "")
    /\ UNCHANGED <<req, benv, gwReq, ws, events, sent, dropped, closeCalls, syncVars, bootVars, restVars>>

BridgeNext ==
    \/ BridgeRequest
    \/ HealthHandler
    \/ FileHandler
    \/ AuthMiddleware
    \/ UpgradeHandler
    \/ EnsureSettles
    \/ WsConnectSettles
    \/ \E s \in Sockets, d \in MessageData : OnMessage(s, d)
    \/ \E s \in Sockets, c \in CloseCodes, r \in CloseReasons : OnClose(s, c, r)
    \/ \E s \in Sockets : OnError(s)

BridgeSpec == BridgeInit /\ [][BridgeNext]_vars

(***************************************************************************)
(* Claims about the relay bridge, checked under BridgeSpec.               *)
(***************************************************************************)
MessageEvents == {i \in DOMAIN events : events[i].kind = "message"}

SentFor(i) == {k \in DOMAIN sent : sent[k].ev = i}

DroppedFor(i) == {k \in DOMAIN dropped : dropped[k].ev = i}

\* C16: send is invoked on the destination of a message only when the
\* destination's readyState is OPEN at that moment, in both directions;
\* a message that finds its destination in any other state is dropped:
\* every message event is either sent once to the peer, which was OPEN,
\* or dropped once, the peer being not OPEN.
C16_SendOnlyToOpen ==
    /\ \A k \in DOMAIN sent : sent[k].readyState = OPEN
    /\ \A k \in DOMAIN dropped : dropped[k].readyState # OPEN
    /\ \A i \in MessageEvents :
          /\ Cardinality(SentFor(i)) + Cardinality(DroppedFor(i)) = 1
          /\ \A k \in SentFor(i) :
                sent[k].to = Peer(events[i].on) /\ sent[k].data = events[i].reason
          /\ \A k \in DroppedFor(i) : dropped[k].to = Peer(events[i].on)

\* the client's socket closed, and a message of the gateway that arrived
\* afterwards was not sent to it
C16_Witness ==
    /\ ws["serverWs"] = CLOSED
    /\ sent = <<>>
    /\ \E k \in DOMAIN dropped :
          /\ dropped[k].to = "serverWs"
          /\ dropped[k].readyState = CLOSED
          /\ events[dropped[k].ev].on = "containerWs"

CloseEvents == {i \in DOMAIN events : events[i].kind = "close"}

CloseCallsFor(i) == {k \in DOMAIN closeCalls : closeCalls[k].ev = i}

\* C17: every close event with code c on either socket of the pair has
\* close invoked on the peer socket, once, with code c, and with the
\* event's reason (a reason from the container longer than 123 characters
\* arrives cut to 120 characters and "...").
C17_ClosePropagates ==
    \A i \in CloseEvents :
        /\ Cardinality(CloseCallsFor(i)) = 1
        /\ \A k \in CloseCallsFor(i) :
              /\ closeCalls[k].on = Peer(events[i].on)
              /\ closeCalls[k].code = events[i].code
              /\ \/ closeCalls[k].reason = events[i].reason
                 \/ /\ events[i].on = "containerWs"
                    /\ Len(events[i].reason) > 123
                    /\ Len(closeCalls[k].reason) = 123
                    /\ SubSeq(closeCalls[k].reason, 1, 120) = SubSeq(events[i].reason, 1, 120)

\* both sides were closed, each with a code other than the normal one and
\* the gateway's with a reason of 124 characters, and the peer was closed
\* with that code
C17_Witness ==
    /\ \E i, j \in CloseEvents :
          /\ events[i].on = "serverWs" /\ events[j].on = "containerWs"
          /\ events[i].code = 4000 /\ events[j].code = 1006
          /\ Len(events[j].reason) = 124
    /\ \E k \in DOMAIN closeCalls : closeCalls[k].code = 4000 /\ closeCalls[k].on = "containerWs"
    /\ \E k \in DOMAIN closeCalls : closeCalls[k].code = 1006 /\ closeCalls[k].on = "serverWs"

ErrorEvents == {i \in DOMAIN events : events[i].kind = "error"}

\* C18: an error event on either socket has close invoked on the other
\* socket with code 1011, the same for both directions, whatever state the
\* two sockets are in.
C18_ErrorClosesPeer ==
    \A i \in ErrorEvents :
        /\ Cardinality(CloseCallsFor(i)) = 1
        /\ \A k \in CloseCallsFor(i) :
              closeCalls[k].on = Peer(events[i].on) /\ closeCalls[k].code = 1011

\* errors on both sockets, the second after its peer had left the OPEN state
C18_Witness ==
    /\ \E i, j \in ErrorEvents : events[i].on = "serverWs" /\ events[j].on = "containerWs"
    /\ Len(closeCalls) = 2
    /\ \A s \in Sockets : ws[s] = CLOSING

Called(name) == \E i \in DOMAIN calls : calls[i] = name

\* C19: wsConnect is called only after ensureMoltbotGateway has returned,
\* and once ensureMoltbotGateway has thrown the response is the 502
\* 'Gateway not ready' and wsConnect is not called.
C19_EnsureBeforeConnect ==
    /\ \A i \in DOMAIN calls :
          calls[i] = "wsConnect" =>
              \E j \in 1..(i - 1) :
                  /\ calls[j] = "ensure returned"
                  /\ \E h \in 1..(j - 1) : calls[h] = "ensureMoltbotGateway"
    /\ Called("ensure threw") =>
          /\ ~Called("wsConnect")
          /\ hpc = "done"
          /\ resp = [status |-> 502, error |-> "Gateway not ready"]

\* the gateway could not be made ready for an authorised upgrade request
C19_Witness ==
    /\ Called("ensure threw")
    /\ resp.status = 502
    /\ gwReq # None

ParamValues(ps, k) == {ps[i][2] : i \in {j \in DOMAIN ps : ps[j][1] = k}}

ParamCount(ps, k) == Cardinality({j \in DOMAIN ps : ps[j][1] = k})

\* C20: the request built for the gateway has no secret parameter, has the
\* path '/', has a Connection header that includes 'upgrade' (in any case),
\* and, when a gateway token is configured, has exactly one token parameter,
\* whose value is that token, whatever token parameters the client sent.
C20_RewrittenRequest ==
    gwReq # None =>
        /\ ParamCount(gwReq[1].params, "secret") = 0
        /\ gwReq[1].path = "/"
        /\ Includes(ToLowerCase(gwReq[1].connection), "upgrade")
        /\ ~Falsy(benv.token) =>
              /\ ParamCount(gwReq[1].params, "token") = 1
              /\ ParamValues(gwReq[1].params, "token") = {benv.token[1]}

\* a relayed request whose client sent the secret and two token parameters
\* of its own, without a Connection header naming the upgrade
C20_Witness ==
    /\ gwReq # None
    /\ ParamCount(req.params, "token") = 2
    /\ ParamCount(req.params, "secret") = 1
    /\ benv.token = Some(GatewayToken)
    /\ req.connection = Some("keep-alive")
    /\ hpc = "relay"

PastAuth == hpc \notin {"idle", "auth"}

ProvidedSecret == ParamGet(req.params, "secret")

Untouched == calls = <<>> /\ gwReq = None /\ \A s \in Sockets : ws[s] = CONNECTING

\* C21: on every endpoint of the bridge a request without the secret
\* parameter, or with one that differs from the configured secret, is
\* answered 401, and any request while no secret is configured is answered
\* 503; in both cases no operation of the sandbox has been called.
C21_SecretRequired ==
    PastAuth =>
        /\ Falsy(benv.secret) =>
              hpc = "done" /\ resp.status = 503 /\ Untouched
        /\ (~Falsy(benv.secret) /\ (ProvidedSecret = None \/ ProvidedSecret[1] # benv.secret[1])) =>
              hpc = "done" /\ resp.status = 401 /\ Untouched
        /\ resp.status \in {401, 503} => Untouched

\* a file write with a wrong secret of the right length was turned away
C21_Witness ==
    /\ req.route = "filePut"
    /\ ProvidedSecret = Some("s3cre7")
    /\ ParamGet(req.params, "path") # None
    /\ benv.secret = Some(BridgeSecret)
    /\ resp.status = 401

\* C22: an authenticated GET on the relay endpoint whose Upgrade header is
\* absent or is not 'websocket' is answered 426 'WebSocket upgrade
\* required'; the gateway is not started and no connection into the
\* container is made for it.
C22_NonUpgradeRejected ==
    (/\ req.route = "relay"
     /\ hpc \notin {"idle", "auth", "upgrade"}
     /\ resp.status \notin {401, 503}
     /\ req.upgrade \notin {Some("websocket"), Some("WebSocket")}) =>
        /\ hpc = "done"
        /\ resp = [status |-> 426, error |-> "WebSocket upgrade required"]
        /\ Untouched

\* an authenticated request with an Upgrade header for another protocol
C22_Witness ==
    /\ req.route = "relay"
    /\ req.upgrade = Some("h2c")
    /\ ProvidedSecret = benv.secret
    /\ resp.status = 426

(***************************************************************************)
(* gateway/env.ts: buildEnvVars, the provider keys and base URLs.          *)
(***************************************************************************)
EndsWith(t, suffix) ==
    Len(t) >= Len(suffix) /\ SubSeq(t, Len(t) - Len(suffix) + 1, Len(t)) = suffix

\* replace(/\/+$/, '')
RECURSIVE StripTrailingSlashes(_)
StripTrailingSlashes(u) ==
    IF u # "" /\ CharAt(u, Len(u)) = "/" THEN StripTrailingSlashes(SubSeq(u, 1, Len(u) - 1))
    ELSE u

GatewayKey == "gateway-key"

AnthropicKey == "direct-anthropic-key"

OpenAIKey == "direct-openai-key"

KeyChoices(k) == {None, Some(""), Some(k)}

BaseUrlChoices ==
    {None, Some(""), Some("/"),
     Some("https://gw.example.com/anthropic"),
     Some("https://gw.example.com/openai"),
     Some("https://gw.example.com/openai/"),
     Some("https://gw.example.com/openai//"),
     Some("https://gw.example.com/openai/v1"),
     Some("https://gw.example.com/myopenai")}

EnvChoices ==
    [AI_GATEWAY_API_KEY : KeyChoices(GatewayKey),
     AI_GATEWAY_BASE_URL : BaseUrlChoices,
     ANTHROPIC_API_KEY : KeyChoices(AnthropicKey),
     OPENAI_API_KEY : KeyChoices(OpenAIKey),
     ANTHROPIC_BASE_URL : {None, Some("https://api.anthropic.com")}]

\* env.AI_GATEWAY_BASE_URL?.replace(/\/+$/, '')
NormalizedBaseUrl(env) ==
    IF env.AI_GATEWAY_BASE_URL = None THEN None
    ELSE Some(StripTrailingSlashes(env.AI_GATEWAY_BASE_URL[1]))

\* '/openai' anywhere in the URL
MentionsOpenAI(env) ==
    NormalizedBaseUrl(env) # None /\ Includes(NormalizedBaseUrl(env)[1], "/openai")

\* normalizedBaseUrl?.endsWith('/openai'), as the conditions read it
IsOpenAIGateway(env) ==
    NormalizedBaseUrl(env) # None /\ EndsWith(NormalizedBaseUrl(env)[1], "/openai")

\* the key the gateway block leaves in envVars.ANTHROPIC_API_KEY
GatewayAnthropicKey(env) ==
    IF ~Falsy(env.AI_GATEWAY_API_KEY) /\ ~IsOpenAIGateway(env) THEN env.AI_GATEWAY_API_KEY
    ELSE None

\* the key the gateway block leaves in envVars.OPENAI_API_KEY
GatewayOpenAIKey(env) ==
    IF ~Falsy(env.AI_GATEWAY_API_KEY) /\ IsOpenAIGateway(env) THEN env.AI_GATEWAY_API_KEY
    ELSE None

\* if (!envVars.X && env.X) envVars.X = env.X
FallBack(sofar, direct) == IF Falsy(sofar) /\ ~Falsy(direct) THEN direct ELSE sofar

\* lines 9-45 of buildEnvVars; None is a key the record does not have
BuildEnvVars(env) ==
    LET url == NormalizedBaseUrl(env)
    IN  [ANTHROPIC_API_KEY |-> FallBack(GatewayAnthropicKey(env), env.ANTHROPIC_API_KEY),
         OPENAI_API_KEY |-> FallBack(GatewayOpenAIKey(env), env.OPENAI_API_KEY),
         AI_GATEWAY_BASE_URL |-> IF ~Falsy(url) THEN url ELSE None,
         OPENAI_BASE_URL |-> IF ~Falsy(url) /\ IsOpenAIGateway(env) THEN url ELSE None,
         ANTHROPIC_BASE_URL |->
             IF ~Falsy(url) THEN (IF IsOpenAIGateway(env) THEN None ELSE url)
             ELSE IF ~Falsy(env.ANTHROPIC_BASE_URL) THEN env.ANTHROPIC_BASE_URL
             ELSE None]

BuildEnvInit ==
    /\ creds = Credentials
    /\ now \in Nows
    /\ restoreComplete = TRUE
    /\ bootFile = File("300\n")
    /\ usageCount = 1
    /\ fileCount = 8
    /\ auxStores = {}
    /\ remote = [f \in RemoteFiles |-> NoFile]
    /\ hadMarker = FALSE
    /\ syncs = 0
    /\ CallInit
    /\ lateRm = FALSE
    /\ arch = NoArch
    /\ BootOff
    /\ BridgeOff
    /\ wenv \in EnvChoices
    /\ cenv = None
    /\ penv = NoProcessEnv
    /\ wt = NoWait
    /\ silent = FALSE
    /\ git = NoGit
    /\ race = NoRace

\* the gateway start calls buildEnvVars(env)
BuildEnvVarsCall ==
    /\ cenv = None
    /\ cenv' = Some(BuildEnvVars(wenv))
    /\ UNCHANGED <<wenv, penv, wt, silent, git, race, syncVars, bootVars, bridgeVars>>

EnvNext == BuildEnvVarsCall

EnvSpec == BuildEnvInit /\ [][EnvNext]_vars

\* the base URLs of the inputs that name the OpenAI endpoint
OpenAIUrls ==
    {Some("https://gw.example.com/openai"), Some("https://gw.example.com/openai/"),
     Some("https://gw.example.com/openai//")}

GatewayKeySet == wenv.AI_GATEWAY_API_KEY = Some(GatewayKey)

\* C23: with AI_GATEWAY_API_KEY set, the provider the base URL selects
\* (OpenAI when the URL without its trailing slashes ends in '/openai',
\* Anthropic otherwise) gets the gateway key whether or not it has a direct
\* key, and the other provider never gets the gateway key; a provider has
\* its direct key exactly when it got no gateway key and a direct key is set.
C23_GatewayKeyPrecedence ==
    cenv # None =>
        LET out == cenv[1]
            openai == wenv.AI_GATEWAY_BASE_URL \in OpenAIUrls
        IN  /\ (GatewayKeySet /\ openai) =>
                  /\ out.OPENAI_API_KEY = Some(GatewayKey)
                  /\ out.ANTHROPIC_API_KEY # Some(GatewayKey)
                  /\ out.ANTHROPIC_API_KEY =
                        (IF wenv.ANTHROPIC_API_KEY = Some(AnthropicKey)
                         THEN Some(AnthropicKey) ELSE None)
            /\ (GatewayKeySet /\ ~openai) =>
                  /\ out.ANTHROPIC_API_KEY = Some(GatewayKey)
                  /\ out.OPENAI_API_KEY # Some(GatewayKey)
                  /\ out.OPENAI_API_KEY =
                        (IF wenv.OPENAI_API_KEY = Some(OpenAIKey) THEN Some(OpenAIKey) ELSE None)
            /\ ~GatewayKeySet =>
                  /\ out.ANTHROPIC_API_KEY =
                        (IF wenv.ANTHROPIC_API_KEY = Some(AnthropicKey)
                         THEN Some(AnthropicKey) ELSE None)
                  /\ out.OPENAI_API_KEY =
                        (IF wenv.OPENAI_API_KEY = Some(OpenAIKey) THEN Some(OpenAIKey) ELSE None)

\* gateway key, both direct keys and an OpenAI base URL with a trailing
\* slash: OpenAI got the gateway key, Anthropic its direct key
C23_Witness ==
    /\ cenv # None
    /\ GatewayKeySet
    /\ wenv.AI_GATEWAY_BASE_URL = Some("https://gw.example.com/openai/")
    /\ wenv.OPENAI_API_KEY = Some(OpenAIKey)
    /\ wenv.ANTHROPIC_API_KEY = Some(AnthropicKey)
    /\ cenv[1].OPENAI_API_KEY = Some(GatewayKey)
    /\ cenv[1].ANTHROPIC_API_KEY = Some(AnthropicKey)

(***************************************************************************)
(* The boot routine and syncToR2 in one container: the worker calls        *)
(* syncToR2 from its cron and admin handlers while start-moltbot.sh runs.  *)
(***************************************************************************)
LifeLocals == {ImageLocal, UsedLocal("{\"v\":\"local\"}", File(OldStamp))}

\* the store holds a snapshot newer than the container's marker
LifeRemote == DirSnapshot(File(NewStamp), File("{\"v\":\"snapshot\"}"))

LifeInit ==
    /\ creds = Credentials
    /\ now \in Nows
    /\ usageCount = 1
    /\ fileCount = 8
    /\ auxStores = {}
    /\ remote = LifeRemote
    /\ hadMarker = FALSE
    /\ syncs = MaxSyncs - 1
    /\ CallInit
    /\ lateRm = FALSE
    /\ arch = NoArch
    /\ bpc = "off"
    /\ loc \in LifeLocals
    /\ restoreComplete = loc[RestoreMark].exists
    /\ bootFile = loc[BootStamp]
    /\ gateway = FALSE
    /\ boots = 0
    /\ loc0 = loc
    /\ restored = {}
    /\ quarantined = FALSE
    /\ starts = 0
    /\ BridgeOff
    /\ RestOff

LifeNext ==
    \/ BootInvoke
    \/ AlreadyRunningCheck
    \/ WriteBootTimestamp
    \/ QuarantineLocal
    \/ RestoreConfig
    \/ RestoreSkills
    \/ RestoreGog
    \/ RestoreTokens
    \/ QuarantineRestored
    \/ TemplateInit
    \/ WriteRestoreComplete
    \/ RestoreGitWorkspace
    \/ BootAborts
    \/ Configure
    \/ StartGateway
    \/ GatewayExits
    \/ \E f \in BOOLEAN : SyncCall(f)
    \/ ConfigCheck
    \/ MountR2Storage
    \/ StartProcess
    \/ RunCommand
    \/ WaitForProcessPoll
    \/ WaitForProcessReturn
    \/ LateRm
    \/ RestoreLogs
    \/ AgeLogs
    \/ StateLogs
    \/ StartSync
    \/ ArchiveStep
    \/ WaitForOutputPoll
    \/ WaitForOutputFinal
    \/ SyncEval
    \/ TimestampLogs
    \/ SyncReturn

LifeSpec == LifeInit /\ [][LifeNext]_vars

\* the boot routine has written the boot timestamp and not yet the
\* restore-complete marker
RestoreInProgress ==
    bpc \in {"quarantine", "config", "skills", "gogcli", "tokens", "postquarantine",
             "template", "mark"}

\* C24: whenever a sync attempt, forced or not, starts its archive/upload
\* command, the boot routine is not between the write of the boot timestamp
\* and the write of the restore-complete marker, also in a boot routine run
\* again in a container that holds the marker of an earlier boot.
C24_NoSyncDuringRestore ==
    [][(~ArchiveRunning /\ ArchiveRunning') => ~RestoreInProgress]_vars

(***************************************************************************)
(* The order of the steps of one sync attempt.                             *)
(***************************************************************************)
StepOrder ==
    <<"mount", "restoreProc", "ageProc", "stateProc", "rmProc", "syncProc", "timestampProc">>

StepRank(c) == CHOOSE i \in DOMAIN StepOrder : StepOrder[i] = c

\* the step a failure result comes from; 0 is the configuration check
FailedStep(error) ==
    CASE error = "R2 storage is not configured" -> 0
      [] error = "Failed to mount R2 storage" -> 1
      [] error \in {"Sync aborted: restore not complete",
                    "Failed to check restore-complete marker"} -> 2
      [] error \in {"Sync aborted: no boot timestamp", "Sync aborted: container too young",
                    "Failed to check container age"} -> 3
      [] error \in {"Sync aborted: no meaningful state",
                    "Failed to check container state"} -> 4
      [] OTHER -> 7

\* C25: the commands of one attempt are issued in the order mount, check A,
\* check B, check C, pre-clear, archive/upload, timestamp read-back, each at
\* most once and each only after the step before it has let the call
\* through; once the configuration check, the mount or a gate check has
\* failed, the attempt holds no command of a later step.
C25_SequentialSteps ==
    /\ \A i, j \in DOMAIN cmds : i < j => StepRank(cmds[i]) < StepRank(cmds[j])
    /\ \A i \in DOMAIN cmds : cmds[i] # "mount" => cmds[1] = "mount"
    /\ Attempted("ageProc") => PassedA
    /\ Attempted("stateProc") => Read("ageProc")
    /\ (Attempted("rmProc") \/ Attempted("syncProc")) => PassedGate
    /\ Attempted("timestampProc") => Issued("syncProc")
    /\ (result # None /\ ~Res.success) =>
          /\ pc = "done"
          /\ \A i \in DOMAIN cmds : StepRank(cmds[i]) <= FailedStep(Res.error[1])

\* an unforced call went through the mount and check A and was stopped by
\* check B, with nothing issued after it
C25_Witness ==
    /\ result # None
    /\ ~Res.success
    /\ Res.error = Some("Sync aborted: container too young")
    /\ cmds = <<"mount", "restoreProc", "ageProc">>
    /\ thrown = {}

(***************************************************************************)
(* The order of the steps of the boot routine.                             *)
(***************************************************************************)
\* the boot got past the test for a running gateway and past line 34
PastStamp ==
    bpc \in {"quarantine", "config", "skills", "gogcli", "tokens", "postquarantine",
             "template", "mark", "git", "configure", "launch", "started", "aborted"}

\* C26: a boot that gets past the already-running check writes the boot
\* timestamp before it quarantines, restores, initializes from the template
\* or writes the restore-complete marker: until the timestamp is written no
\* file of the container has changed, and from then on, also in a boot that
\* a failing later step aborts, the timestamp this boot wrote is in place.
C26_BootTimestampFirst ==
    /\ bpc \in {"check", "stamp"} =>
          loc = loc0 /\ restored = {} /\ ~quarantined
    /\ PastStamp =>
          /\ loc[BootStamp] = File(IntToString(now) \o "\n")
          /\ bootFile = loc[BootStamp]
          /\ \A f \in LocalFiles \ {BootStamp} : loc[f] # loc0[f] => bpc # "quarantine"

\* a re-run in a used container wrote a new timestamp and was then aborted
\* by a failing copy of the restore
C26_Witness ==
    /\ bpc = "aborted"
    /\ loc0[BootStamp] = File("100\n")
    /\ loc[BootStamp] = File("1000\n")
    /\ ~loc[RestoreMark].exists \/ loc0[RestoreMark].exists
    /\ restored # {}

\* the boot is past line 179
PastMark == bpc \in {"git", "configure", "launch", "started"}

\* C27: in a boot the restore-complete marker is written only when both
\* quarantines, the restore sections and the template initialization are
\* over, and before the overrides are applied and the gateway is started:
\* a container that had no marker has none while those steps run; past the
\* marker nothing is quarantined, restored or initialized any more; the
\* config is rewritten by the overrides and the gateway started only with
\* the marker in place.
C27_BootOrder ==
    /\ [](RestoreInProgress /\ ~loc0[RestoreMark].exists => ~loc[RestoreMark].exists)
    /\ [](PastMark => loc[RestoreMark].exists /\ restoreComplete)
    /\ [][/\ (loc'[RestoreMark] # loc[RestoreMark]) => (bpc = "mark" /\ PastMark')
          /\ PastMark =>
                /\ restored' = restored \/ bpc' = "check"
                /\ quarantined' = quarantined \/ bpc' = "check"
                /\ \A f \in LocalFiles \ {ConfigFile} : loc'[f] = loc[f]
          /\ (PastMark /\ loc'[ConfigFile] # loc[ConfigFile]) =>
                (bpc = "configure" /\ loc'[ConfigFile].text = WithOverrides(loc[ConfigFile].text, penv))
          /\ (starts' # starts) => (bpc = "launch" /\ loc[RestoreMark].exists /\ gateway')]_vars

\* a container from the image restored a snapshot and started the gateway
C27_Witness ==
    /\ bpc = "started"
    /\ gateway
    /\ ~loc0[RestoreMark].exists
    /\ loc[RestoreMark].exists
    /\ "config" \in restored
    /\ Includes(loc[ConfigFile].text, "\"gateway\":")

\* the config file is there and a line of it holds "dm":
HasInvalidKey(f) == f.exists /\ Includes(f.text, "\"dm\":")

\* C28: each of the two quarantine checks, run on a config that carries the
\* invalid key, leaves the container without the config and without the
\* local last-sync marker; run on a config without the key, or on none, it
\* changes no file.
C28_QuarantineTogether ==
    [][(bpc \in {"quarantine", "postquarantine"} /\ bpc' # bpc /\ bpc' # "aborted") =>
          IF HasInvalidKey(loc[ConfigFile])
          THEN /\ ~loc'[ConfigFile].exists
               /\ ~loc'[LastSync].exists
               /\ \A f \in LocalFiles \ {ConfigFile, LastSync} : loc'[f] = loc[f]
          ELSE loc' = loc]_vars

\* both checks fired in one boot: on the container's own config, and again
\* on the config restored from the snapshot
C28_Witness ==
    /\ bpc = "template"
    /\ quarantined
    /\ "config" \in restored
    /\ HasInvalidKey(remote[OrphanFile])
    /\ remote[LastSync].exists
    /\ ~loc[ConfigFile].exists
    /\ ~loc[LastSync].exists

\* C29: the config that the override step writes never carries the key
\* that the quarantine check looks for, whatever the environment holds.
C29_OverridesKeepKeyOut ==
    [][(bpc = "configure" /\ bpc' = "launch") => ~HasInvalidKey(loc'[ConfigFile])]_vars

\* C30: whenever a boot writes the restore-complete marker, the local
\* config exists and carries no invalid key; a boot that reaches the template
\* step without a config gets it from the built-in template before the marker.
C30_ConfigBeforeMarker ==
    /\ [][(bpc = "mark" /\ bpc' = "git")
            => /\ loc'[RestoreMark].exists
               /\ loc'[ConfigFile].exists
               /\ ~HasInvalidKey(loc'[ConfigFile])]_vars
    /\ [][(bpc = "template" /\ bpc' = "mark" /\ ~loc[ConfigFile].exists)
            => loc'[ConfigFile] = File(TemplateConfig)]_vars

\* a boot that quarantined the restored config has written the marker over
\* the config of the template
C30_Witness ==
    /\ bpc = "configure"
    /\ quarantined
    /\ loc[RestoreMark].exists
    /\ loc[ConfigFile] = File(TemplateConfig)

(***************************************************************************)
(* gateway/utils.ts: waitForProcess and waitForOutput, each call taken by  *)
(* itself, with its timeout and interval as inputs and the supervised      *)
(* process free to change its status and to print at any moment.           *)
(***************************************************************************)
TimeoutChoices == {0, 500, 1200, 2000}

IntervalChoices == {500, 1000}

ProcStatuses == {"starting", "running", "completed", "failed"}

Progress == "tar: Removing leading `/' from member names\n"

\* what the logs of the process can hold
OutChoices == {"", Progress, Progress \o "SYNC_OK\n", Progress \o "SYNC_FAIL\n"}

\* Math.ceil(timeoutMs / pollIntervalMs)
MaxAttempts(timeoutMs, pollIntervalMs) == (timeoutMs + pollIntervalMs - 1) \div pollIntervalMs

WaitInit ==
    /\ creds = Credentials
    /\ now \in Nows
    /\ restoreComplete = TRUE
    /\ bootFile = File("300\n")
    /\ usageCount = 1
    /\ fileCount = 8
    /\ auxStores = {}
    /\ remote = [f \in RemoteFiles |-> NoFile]
    /\ hadMarker = FALSE
    /\ syncs = 0
    /\ CallInit
    /\ lateRm = FALSE
    /\ arch = NoArch
    /\ BootOff
    /\ BridgeOff
    /\ wenv = NoEnv
    /\ cenv = None
    /\ penv = NoProcessEnv
    /\ silent = FALSE
    /\ git = NoGit
    /\ race = NoRace
    /\ \E fn \in {"waitForProcess", "waitForOutput"}, t \in TimeoutChoices,
          p \in IntervalChoices, st \in ProcStatuses, o \in {"", Progress \o "SYNC_OK\n"} :
          wt = [fn |-> fn, timeoutMs |-> t, pollIntervalMs |-> p, status |-> st, out |-> o,
                at |-> "loop", attempts |-> 0, sleeps |-> 0, reads |-> 0, ret |-> None]

WaitOthers == <<syncVars, bootVars, bridgeVars, wenv, cenv, penv, silent, git, race>>

\* the supervised process: its status field changes, or it prints
ProcessMoves ==
    /\ wt.at = "loop"
    /\ \/ \E st \in ProcStatuses \ {wt.status} : wt' = [wt EXCEPT !.status = st]
       \/ /\ wt.out = ""
          /\ wt' = [wt EXCEPT !.out = Progress]
       \/ /\ wt.out = Progress
          /\ \E t \in Sentinels : wt' = [wt EXCEPT !.out = Progress \o t \o "\n"]
    /\ UNCHANGED WaitOthers

\* the loop goes on past maxAttempts by one
StillWaitingInclusive(status, n, maxAttempts) ==
    status = "running" /\ n <= maxAttempts

\* while (proc.status === 'running' && attempts < maxAttempts)
StillWaiting(status, n, maxAttempts) ==
    status = "running" /\ n < maxAttempts

\* waitForProcess: one test of the loop condition, and the sleep when it holds
WaitForProcessStep ==
    /\ wt.fn = "waitForProcess"
    /\ wt.at = "loop"
    /\ wt' = IF StillWaiting(wt.status, wt.attempts, MaxAttempts(wt.timeoutMs, wt.pollIntervalMs))
             THEN [wt EXCEPT !.attempts = @ + 1, !.sleeps = @ + 1]
             ELSE [wt EXCEPT !.at = "returned"]
    /\ UNCHANGED WaitOthers

\* waitForOutput: one iteration of the for loop (sleep, getLogs, test), or
\* the read after the loop; getLogs resolves or rejects
WaitForOutputStep ==
    /\ wt.fn = "waitForOutput"
    /\ wt.at = "loop"
    /\ \/ wt' = [wt EXCEPT !.at = "threw", !.reads = @ + 1,
                           !.sleeps = IF wt.attempts < MaxAttempts(wt.timeoutMs, wt.pollIntervalMs)
                                      THEN @ + 1 ELSE @]
       \/ wt' = IF wt.attempts < MaxAttempts(wt.timeoutMs, wt.pollIntervalMs)
                THEN IF HasSentinel(wt.out)
                     THEN [wt EXCEPT !.at = "returned", !.sleeps = @ + 1, !.reads = @ + 1,
                                     !.ret = Some([found |-> TRUE, stdout |-> wt.out, stderr |-> ""])]
                     ELSE [wt EXCEPT !.attempts = @ + 1, !.sleeps = @ + 1, !.reads = @ + 1]
                ELSE [wt EXCEPT !.at = "returned", !.reads = @ + 1,
                                !.ret = Some(FinalRead(wt.out, ""))]
    /\ UNCHANGED WaitOthers

WaitStep == WaitForProcessStep \/ WaitForOutputStep

WaitNext ==
    \/ ProcessMoves
    \/ WaitForProcessStep
    \/ WaitForOutputStep

\* the event loop runs the call's next step: a timer that was set fires and
\* a getLogs promise settles
WaitSpec == WaitInit /\ [][WaitNext]_vars /\ WF_vars(WaitStep)

WaitOver == wt.at \in {"returned", "threw"}

\* C31: a wait call ends whatever the process does; waitForProcess sleeps at
\* most ceil(timeoutMs / pollIntervalMs) times and not at all when the status
\* is not 'running' at its first test; waitForOutput reads the logs at most
\* ceil(timeoutMs / pollIntervalMs) times in its loop and once after it.
C31_WaitsTerminate ==
    /\ <>WaitOver
    /\ [](wt.fn # "none" =>
            /\ wt.sleeps <= MaxAttempts(wt.timeoutMs, wt.pollIntervalMs)
            /\ wt.attempts <= MaxAttempts(wt.timeoutMs, wt.pollIntervalMs)
            /\ wt.fn = "waitForProcess" => wt.reads = 0 /\ wt.at # "threw"
            /\ wt.fn = "waitForOutput" =>
                  wt.reads <= MaxAttempts(wt.timeoutMs, wt.pollIntervalMs) + 1)
    /\ [][(wt.fn = "waitForProcess" /\ wt.sleeps = 0 /\ wt.status # "running"
             /\ wt' # wt /\ wt'.status = wt.status /\ wt'.out = wt.out)
            => wt'.at = "returned" /\ wt'.sleeps = 0]_vars

\* a waitForProcess call whose process stayed 'running' has returned after
\* four sleeps of 500 ms
C31_Witness ==
    /\ wt.fn = "waitForProcess"
    /\ wt.timeoutMs = 2000
    /\ wt.pollIntervalMs = 500
    /\ wt.status = "running"
    /\ wt.at = "returned"
    /\ wt.sleeps = 4

\* C38: the found flag of waitForOutput's result says whether the returned
\* stdout holds a sentinel, and a poll that reads a sentinel returns at once.
C38_FoundAgreesWithOutput ==
    /\ []((wt.fn = "waitForOutput" /\ wt.at = "returned")
            => (wt.ret[1].found <=> HasSentinel(wt.ret[1].stdout)))
    /\ [][(wt.fn = "waitForOutput" /\ wt.at = "loop" /\ wt'.reads = wt.reads + 1
             /\ wt.attempts < MaxAttempts(wt.timeoutMs, wt.pollIntervalMs)
             /\ HasSentinel(wt.out) /\ wt'.at # "threw")
            => wt'.at = "returned" /\ wt'.ret[1].found]_vars

\* the wait at wait step p ends by its timeout: the status is still 'running'
\* when the polls are used up
TimesOut(p) == pc = p /\ proc.status = "running" /\ attempts >= ProcPolls /\ pc' # pc

\* the logs step p follows a wait that ended by its timeout
AfterTimeout(p) == pc = p /\ proc.status = "running" /\ pc' # pc

FailsNow == pc' = "done" /\ ~result'[1].success

\* C32 as stated: each bounded wait of the sync that ends by its timeout
\* makes the call return a failure.
C32_TimeoutIsFailure ==
    /\ [][(\E p \in LogsPcs : AfterTimeout(p)) => FailsNow]_vars
    /\ [][TimesOut("rm_wait") => FailsNow]_vars
    /\ [][(pc = "sync_eval" /\ ~wres.found /\ pc' # pc) => FailsNow]_vars

\* C32, amended: only the sentinel wait reports its timeout, by found =
\* FALSE, and the call then fails with 'Sync failed'.  A status wait returns
\* nothing; the call goes on to read the logs, or after the pre-clear to the
\* archive command, whether the wait timed out or not.  A gate probe that
\* timed out and has printed nothing makes the call fail; a read-back that
\* timed out and has printed nothing gives success without lastSync.
C32_SentinelTimeoutIsFailure ==
    /\ [][(pc = "sync_poll" /\ pc' = "sync_eval" /\ attempts >= SyncPolls) => ~wres'.found]_vars
    /\ [][(pc = "sync_poll" /\ pc' = "sync_eval" /\ attempts < SyncPolls) => wres'.found]_vars
    /\ [][(pc = "sync_eval" /\ ~wres.found /\ pc' # pc)
            => /\ FailsNow
               /\ result'[1].error = Some("Sync failed")
               /\ \/ StartsWith(result'[1].details[1], "Sync timed out: ")
                  \/ /\ StartsWith(result'[1].details[1], "Sync command failed: ")
                     /\ Includes(wres.stdout, "SYNC_FAIL")]_vars
    /\ [][(\E p \in WaitPcs : pc = p /\ pc' # pc) => pc' = AfterWait(pc)]_vars
    /\ [][(\E p \in {"A_logs", "B_logs", "C_logs"} : AfterTimeout(p) /\ proc.stdout = "")
            => FailsNow]_vars
    /\ [][(AfterTimeout("ts_logs") /\ proc.stdout = "" /\ thrown' = thrown)
            => pc' = "done" /\ result' = Some(SyncResult(TRUE, None, None, None))]_vars

\* the sentinel wait of a call has timed out while the archive command was
\* still copying, and the call has returned 'Sync timed out'
C32_Witness ==
    /\ pc = "done"
    /\ ~wres.found
    /\ wres.stdout = ""
    /\ arch.stage = "cpSkills"
    /\ ~result[1].success
    /\ StartsWith(result[1].details[1], "Sync timed out: ")

GateLogsPcs == {"A_logs", "B_logs", "C_logs"}

NothingUploaded == ~Attempted("rmProc") /\ ~Attempted("syncProc")

\* C35 as stated: a gate probe that had printed nothing when its status wait
\* returned makes the call abort, with no pre-clear and no archive command.
C35_SilentProbeAborts ==
    [][(pc \in GateLogsPcs /\ silent /\ pc' # pc) => (FailsNow /\ NothingUploaded')]_vars

\* C35, amended: a gate probe whose logs hold no output when the call reads
\* them makes the call abort, with no pre-clear and no archive command; in a
\* forced call this is the restore-complete probe, the only one it runs.
C35_GateFailsSafe ==
    /\ [][(pc \in GateLogsPcs /\ proc.stdout = "" /\ pc' # pc)
            => (FailsNow /\ NothingUploaded')]_vars
    /\ [](\A c \in {"restoreProc", "ageProc", "stateProc"} :
            (Read(c) /\ seen[c][1] = "")
               => /\ pc = "done"
                  /\ ~result[1].success
                  /\ result[1].error[1] \in GateAborts
                  /\ NothingUploaded)
    /\ [](force => ~Attempted("ageProc") /\ ~Attempted("stateProc"))

\* an unforced call whose usage probe was still silent when its logs were
\* read, after the first two checks had passed
C35_Witness ==
    /\ pc = "done"
    /\ ~force
    /\ PassedA
    /\ Read("ageProc")
    /\ seen["stateProc"] = Some("")
    /\ proc.cmd = "stateProc"
    /\ ~proc.ran
    /\ result[1].error = Some("Sync aborted: no meaningful state")

\* C33: whatever git command of the workspace section fails, the boot goes
\* on from that section to the overrides, the restore-complete marker stays
\* in place, and no file of the container is changed by the failure.
C33_GitRestoreBestEffort ==
    /\ [][bpc = "git" => /\ bpc' = "configure"
                         /\ loc' = loc
                         /\ loc[RestoreMark].exists
                         /\ restoreComplete']_vars
    /\ []((git.failed # {} /\ bpc \in {"configure", "launch", "started"})
            => loc[RestoreMark].exists /\ restoreComplete)
    /\ [][(bpc = "launch" /\ bpc' = "started") => gateway']_vars

\* the fetch failed, the workspace is as it was, the overrides were applied
\* and the gateway was started
C33_Witness ==
    /\ bpc = "started"
    /\ gateway
    /\ GitConfigured(penv)
    /\ git.failed = {"fetch"}
    /\ git.workspace = "image"
    /\ loc[RestoreMark].exists
    /\ Includes(loc[ConfigFile].text, "\"channels\":")

\* C34: the reason passed to close on the peer is never longer than 123: a
\* reason longer than that is passed as its first 120 characters and "...",
\* a shorter one as it is, from the container's side to the client's and
\* from the client's side to the container's.
C34_ReasonWithinLimit ==
    \A k \in DOMAIN closeCalls :
        /\ Len(closeCalls[k].reason) <= 123
        /\ \A i \in CloseEvents \cap {closeCalls[k].ev} :
              closeCalls[k].reason =
                 IF Len(events[i].reason) > 123
                 THEN SubSeq(events[i].reason, 1, 120) \o "..."
                 ELSE events[i].reason

(***************************************************************************)
(* The relay of routes/bridge.ts from the moment it is established, with   *)
(* the closing handshakes the platform completes.                          *)
(***************************************************************************)
TeardownInit ==
    /\ creds = Credentials
    /\ now \in Nows
    /\ restoreComplete = TRUE
    /\ bootFile = File("300\n")
    /\ usageCount = 1
    /\ fileCount = 8
    /\ auxStores = {}
    /\ remote = [f \in RemoteFiles |-> NoFile]
    /\ hadMarker = FALSE
    /\ syncs = 0
    /\ CallInit
    /\ lateRm = FALSE
    /\ arch = NoArch
    /\ BootOff
    /\ RestOff
    /\ hpc = "relay"
    /\ req = [route |-> "relay", upgrade |-> Some("websocket"), connection |-> None,
              params |-> <<<<"secret", BridgeSecret>>>>]
    /\ benv = [secret |-> Some(BridgeSecret), token |-> None]
    /\ gwReq = Some([upgrade |-> "websocket", connection |-> "Upgrade", params |-> <<>>,
                     path |-> "/"])
    /\ resp = [status |-> 101, error |-> ""]
    /\ calls = <<"ensureMoltbotGateway", "ensure returned", "wsConnect">>
    /\ ws = [s \in Sockets |-> OPEN]
    /\ events = <<>>
    /\ sent = <<>>
    /\ dropped = <<>>
    /\ closeCalls = <<>>

\* the close call that put socket p into CLOSING
ClosingCall(p) ==
    closeCalls[CHOOSE k \in DOMAIN closeCalls :
                  /\ closeCalls[k].on = p
                  /\ \A j \in DOMAIN closeCalls : closeCalls[j].on = p => j <= k]

\* the closing handshake of socket p is over: the platform dispatches 'close'
\* on p with the code and reason of the call, and p's listener runs
CloseHandshake(p) ==
    /\ hpc = "relay"
    /\ ws[p] = CLOSING
    /\ LET c == ClosingCall(p) IN
          /\ events' = Append(events, [kind |-> "close", on |-> p, code |-> c.code,
                                       reason |-> c.reason])
          /\ closeCalls' = Append(closeCalls, [on |-> Peer(p), code |-> ClosePassedCode(c.code),
                                               reason |-> ClosePassedReason(p, c.reason),
                                               ev |-> Len(events) + 1])
          /\ \E accepted \in (IF c.code \in ReservedCodes THEN BOOLEAN ELSE {TRUE}) :
                ws' = [ws EXCEPT ![p] = CLOSED,
                                 ![Peer(p)] = AfterCloseCall(Peer(p), c.code, accepted)]
    /\ UNCHANGED <<hpc, req, benv, gwReq, resp, calls, sent, dropped, syncVars, bootVars, restVars>>

\* a socket that has had an 'error' event is closed by the platform as lost:
\* 'close' is dispatched on it with code 1006 and no reason
CloseAfterError(s) ==
    /\ hpc = "relay"
    /\ ws[s] # CLOSED
    /\ \E i \in DOMAIN events : events[i].kind = "error" /\ events[i].on = s
    /\ events' = Append(events, [kind |-> "close", on |-> s, code |-> 1006, reason |-> ""])
    /\ closeCalls' = Append(closeCalls, [on |-> Peer(s), code |-> ClosePassedCode(1006),
                                         reason |-> ClosePassedReason(s, ""),
                                         ev |-> Len(events) + 1])
    /\ \E accepted \in BOOLEAN :
          ws' = [ws EXCEPT ![s] = CLOSED, ![Peer(s)] = AfterCloseCall(Peer(s), 1006, accepted)]
    /\ UNCHANGED <<hpc, req, benv, gwReq, resp, calls, sent, dropped, syncVars, bootVars, restVars>>

TeardownNext ==
    \/ \E s \in Sockets, d \in MessageData : OnMessage(s, d)
    \/ \E s \in Sockets, c \in CloseCodes, r \in CloseReasons : OnClose(s, c, r)
    \/ \E s \in Sockets : OnError(s)
    \/ \E p \in Sockets : CloseHandshake(p)
    \/ \E s \in Sockets : CloseAfterError(s)

\* a closing handshake that was begun is completed by the platform, and a
\* socket that failed is closed by it
TeardownSpec ==
    /\ TeardownInit
    /\ [][TeardownNext]_vars
    /\ \A p \in Sockets : WF_vars(CloseHandshake(p)) /\ WF_vars(CloseAfterError(p))

TeardownBegan == \E i \in DOMAIN events : events[i].kind \in {"close", "error"}

BothClosed == \A s \in Sockets : ws[s] = CLOSED

\* C40: once a close or an error event has reached either socket, the relay
\* comes to a state with both sockets closed; each event makes its listener
\* call close on the peer once and no more, and no message is sent to a
\* socket on which close has been called.
C40_TeardownCompletes ==
    /\ TeardownBegan ~> BothClosed
    /\ [](Len(closeCalls) = Cardinality({i \in DOMAIN events :
                                            events[i].kind \in {"close", "error"}}))
    /\ [][\A k \in DOMAIN sent' \ DOMAIN sent :
             \A j \in DOMAIN closeCalls : closeCalls[j].on # sent'[k].to]_vars

\* the store is as the first boot found it: no archive command has run
SnapshotUnchanged == arch.stage = "none"

\* C39: a boot that restored the config of a snapshot whose config is sound
\* leaves the local last-sync marker equal to the snapshot's; a second boot
\* in that container, begun with the markers equal and the snapshot
\* unchanged, restores no group and leaves the restored files and the marker
\* as it found them.
C39_RestoreIdempotent ==
    /\ (boots = 1 /\ SnapshotUnchanged /\ PastRestore /\ "config" \in restored
          /\ ~HasInvalidKey(remote[OrphanFile]))
         => loc[LastSync] = remote[LastSync]
    /\ (boots = 2 /\ SnapshotUnchanged /\ loc0[ConfigFile].exists
          /\ loc0[LastSync].exists /\ loc0[LastSync] = remote[LastSync])
         => /\ restored = {}
            /\ \A f \in {LastSync, SKILLS_DIR, GOG_CONFIG_DIR, MS_GRAPH_TOKEN_FILE} :
                  loc[f] = loc0[f]

(***************************************************************************)
(* A sync attempt in a used container, and the boot of the container that  *)
(* replaces it: sync.ts 144-192 followed by start-moltbot.sh 54-110.       *)
(***************************************************************************)
\* the files of the container in use
HandoverLocal == UsedLocal("{\"v\":\"local\"}", File(OldStamp))

\* a container in use, its boot routine over, and a snapshot with a valid
\* marker in the store
HandoverInit ==
    /\ creds = Credentials
    /\ now \in Nows
    /\ usageCount = 1
    /\ fileCount = 8
    /\ auxStores = {}
    /\ remote = LifeRemote
    /\ hadMarker = FALSE
    /\ syncs = MaxSyncs - 1
    /\ CallInit
    /\ lateRm = FALSE
    /\ arch = NoArch
    /\ bpc = "started"
    /\ loc = HandoverLocal
    /\ restoreComplete = TRUE
    /\ bootFile = loc[BootStamp]
    /\ gateway = TRUE
    /\ boots = MaxBoots
    /\ loc0 = loc
    /\ restored = {}
    /\ quarantined = FALSE
    /\ starts = 1
    /\ BridgeOff
    /\ RestOff

\* the platform replaces the container once the sync call has its result:
\* the processes of the old container end with it, the new one holds the
\* files of the image and has not run its boot routine
ContainerHandover ==
    /\ pc = "done"
    /\ loc = HandoverLocal
    /\ bpc = "started"
    /\ bpc' = "off"
    /\ loc' = ImageLocal
    /\ loc0' = ImageLocal
    /\ restoreComplete' = FALSE
    /\ bootFile' = NoFile
    /\ gateway' = FALSE
    /\ boots' = 0
    /\ restored' = {}
    /\ quarantined' = FALSE
    /\ arch' = NoArch
    /\ lateRm' = FALSE
    /\ UNCHANGED <<creds, now, usageCount, fileCount, auxStores, remote, hadMarker, syncs,
                   callVars, starts, bridgeVars, restVars>>

HandoverNext ==
    \/ \E f \in BOOLEAN : SyncCall(f)
    \/ ConfigCheck
    \/ MountR2Storage
    \/ StartProcess
    \/ RunCommand
    \/ WaitForProcessPoll
    \/ WaitForProcessReturn
    \/ LateRm
    \/ RestoreLogs
    \/ AgeLogs
    \/ StateLogs
    \/ StartSync
    \/ ArchiveStep
    \/ WaitForOutputPoll
    \/ WaitForOutputFinal
    \/ SyncEval
    \/ TimestampLogs
    \/ SyncReturn
    \/ ContainerHandover
    \/ BootInvoke
    \/ AlreadyRunningCheck
    \/ WriteBootTimestamp
    \/ QuarantineLocal
    \/ RestoreConfig
    \/ RestoreSkills
    \/ RestoreGog
    \/ RestoreTokens
    \/ QuarantineRestored
    \/ TemplateInit
    \/ WriteRestoreComplete
    \/ RestoreGitWorkspace
    \/ BootAborts
    \/ Configure
    \/ StartGateway
    \/ GatewayExits

HandoverSpec == HandoverInit /\ [][HandoverNext]_vars

\* the call returned the failure of its archive/upload step: the gate was
\* passed, and the command printed SYNC_FAIL or the wait for it ran out
FailedInUpload ==
    /\ pc = "done"
    /\ ~result[1].success
    /\ result[1].error = Some("Sync failed")

\* the first boot of the fresh container is past its restore sections
FreshBootRestored == boots = 1 /\ loc0 = ImageLocal /\ PastRestore

\* the pre-clear of the failed attempt ran
PreCleared == proc.cmd = "rmProc" /\ proc.ran

\* C36 as stated: after a sync attempt that passed the gate and failed in
\* archive/upload against a snapshot with a valid marker, a fresh container
\* restores the snapshot's config.
C36_FailedSyncKeepsRestorable ==
    (FailedInUpload /\ hadMarker /\ FreshBootRestored) => "config" \in restored

\* C36: after such a failed attempt the fresh container restores the config
\* exactly when the store still holds a last-sync marker; when the pre-clear
\* ran and the command printed the failure sentinel the marker is gone and
\* the boot restores no group.
C36_RestoresOnlyWithMarker ==
    (FailedInUpload /\ hadMarker /\ FreshBootRestored)
        => /\ "config" \in restored <=> remote[LastSync].exists
           /\ (PreCleared /\ Includes(wres.stdout, "SYNC_FAIL"))
                 => (~remote[LastSync].exists /\ restored = {})

\* the archive failed after the pre-clear, and the fresh container started
\* its gateway with nothing restored
C36_Witness ==
    /\ FailedInUpload
    /\ hadMarker
    /\ FreshBootRestored
    /\ PreCleared
    /\ Includes(wres.stdout, "SYNC_FAIL")
    /\ bpc = "started"
    /\ restored = {}
    /\ remote[OrphanFile].exists

(***************************************************************************)
(* Two syncToR2 calls in one container, both past the gate: sync.ts        *)
(* 144-192 run twice at once, with no lock between them.                   *)
(***************************************************************************)
\* polls of waitForOutput before its loop runs out
RacePolls == 1

\* the archives attempt k builds; 0 is the sync before both
ConfigArchiveOf(k) == "config archive " \o IntToString(k)

SkillsArchiveOf(k) == "skills archive " \o IntToString(k)

\* the store before the two calls: empty, or the output of an earlier sync
ArchiveSnapshot ==
    [f \in RemoteFiles |->
        CASE f = LastSync -> File(OldStamp)
          [] f = "openclaw-backup.tar.gz" -> File(ConfigArchiveOf(0))
          [] f = "skills-backup.tar.gz" -> File(SkillsArchiveOf(0))
          [] OTHER -> NoFile]

RaceRemotes == {[f \in RemoteFiles |-> NoFile], ArchiveSnapshot}

RaceInit ==
    /\ creds = Credentials
    /\ now \in Nows
    /\ restoreComplete = TRUE
    /\ bootFile = File("300\n")
    /\ usageCount = 1
    /\ fileCount = 8
    /\ auxStores = {}
    /\ remote \in RaceRemotes
    /\ hadMarker = FALSE
    /\ syncs = 0
    /\ CallInit
    /\ lateRm = FALSE
    /\ arch = NoArch
    /\ BootOff
    /\ BridgeOff
    /\ wenv = NoEnv
    /\ cenv = None
    /\ penv = NoProcessEnv
    /\ wt = NoWait
    /\ silent = FALSE
    /\ git = NoGit
    /\ race = [call |-> [i \in Attempts |-> [NoAttempt EXCEPT !.pc = "rm_start"]], tmp |-> 0]

RaceOthers ==
    <<creds, now, restoreComplete, bootFile, usageCount, fileCount, auxStores, hadMarker, syncs,
      callVars, lateRm, arch, bootVars, bridgeVars, wenv, cenv, penv, wt, silent, git>>

\* call i returns r
RaceReturn(i, r) == race' = [race EXCEPT !.call[i].pc = "done", !.call[i].ret = Some(r)]

\* the pre-clear of call i: startProcess throws and the catch goes on, or the
\* rm runs within the wait, or the wait ends with the rm still to run
PreClear(i) ==
    /\ race.call[i].pc = "rm_start"
    /\ \/ /\ race' = [race EXCEPT !.call[i].pc = "sync_start"]
          /\ remote' = remote
       \/ /\ race' = [race EXCEPT !.call[i].pc = "sync_start", !.call[i].rm = "ran"]
          /\ remote' = RemoveLastSync(remote)
       \/ /\ race' = [race EXCEPT !.call[i].pc = "sync_start", !.call[i].rm = "pending"]
          /\ remote' = remote
    /\ UNCHANGED RaceOthers

\* the rm of call i runs after its wait ended
PreClearLate(i) ==
    /\ race.call[i].rm = "pending"
    /\ race' = [race EXCEPT !.call[i].rm = "ran"]
    /\ remote' = RemoveLastSync(remote)
    /\ UNCHANGED RaceOthers

\* const proc = await sandbox.startProcess(syncCmd)
StartSyncCmd(i) ==
    /\ race.call[i].pc = "sync_start"
    /\ \/ \E msg \in ErrMessages : RaceReturn(i, Failure("Sync error", Some(msg)))
       \/ race' = [race EXCEPT !.call[i].pc = "sync_poll", !.call[i].stage = "tar"]
    /\ UNCHANGED <<remote, RaceOthers>>

\* the marker written before the copies
StageAfterDateFirst(stage) ==
    CASE stage = "tar" -> "date"
      [] stage = "date" -> "cpConfig"
      [] stage = "cpConfig" -> "cpSkills"
      [] stage = "cpSkills" -> "echo"
      [] stage = "echo" -> "exited"

\* the && chain of syncCmd: the two tars, the two copies, the date, the echo
StageAfter(stage) ==
    CASE stage = "tar" -> "cpConfig"
      [] stage = "cpConfig" -> "cpSkills"
      [] stage = "cpSkills" -> "date"
      [] stage = "date" -> "echo"
      [] stage = "echo" -> "exited"

\* one command of the syncCmd of call i runs, or fails and ends the chain
SyncCmdStep(i) ==
    /\ race.call[i].stage \notin {"none", "exited"}
    /\ LET st == race.call[i].stage IN
       \/ /\ remote' =
                CASE st = "cpConfig" ->
                        [remote EXCEPT !["openclaw-backup.tar.gz"] =
                                          File(ConfigArchiveOf(race.tmp))]
                  [] st = "cpSkills" ->
                        [remote EXCEPT !["skills-backup.tar.gz"] =
                                          File(SkillsArchiveOf(race.tmp))]
                  [] st = "date" -> [remote EXCEPT ![LastSync] = File(DateString(i) \o "\n")]
                  [] OTHER -> remote
          /\ race' = [race EXCEPT !.call[i].stage = StageAfter(st),
                                  !.call[i].stdout = IF st = "echo" THEN "SYNC_OK\n" ELSE @,
                                  !.tmp = IF st = "tar" THEN i ELSE @]
       \/ /\ st \in {"tar", "cpConfig", "cpSkills", "date"}
          /\ \E e \in StderrOf(st) :
                race' = [race EXCEPT !.call[i].stage = "exited",
                                     !.call[i].stdout = "SYNC_FAIL\n",
                                     !.call[i].stderr = e]
          /\ remote' = remote
    /\ UNCHANGED RaceOthers

\* what call i does with the result r of waitForOutput
AfterWaitForOutput(i, r) ==
    IF SyncSucceeded(r)
    THEN race' = [race EXCEPT !.call[i].pc = "ts"]
    ELSE RaceReturn(i, Failure("Sync failed", Some(SyncFailDetails(r))))

\* waitForOutput of call i: a poll that finds a sentinel, one that finds
\* none, and the read after the loop
RacePoll(i) ==
    /\ race.call[i].pc = "sync_poll"
    /\ LET c == race.call[i] IN
       IF c.polls < RacePolls
       THEN IF HasSentinel(c.stdout)
            THEN AfterWaitForOutput(i, [found |-> TRUE, stdout |-> c.stdout,
                                        stderr |-> c.stderr])
            ELSE race' = [race EXCEPT !.call[i].polls = @ + 1]
       ELSE AfterWaitForOutput(i, FinalRead(c.stdout, c.stderr))
    /\ UNCHANGED <<remote, RaceOthers>>

\* cat .last-sync of call i and its return
RaceTimestamp(i) ==
    /\ race.call[i].pc = "ts"
    /\ \/ \E msg \in ErrMessages : RaceReturn(i, Failure("Sync error", Some(msg)))
       \/ RaceReturn(i, SuccessResult(Trim(IF remote[LastSync].exists
                                           THEN remote[LastSync].text ELSE "")))
    /\ UNCHANGED <<remote, RaceOthers>>

RaceNext ==
    \E i \in Attempts :
       \/ PreClear(i)
       \/ PreClearLate(i)
       \/ StartSyncCmd(i)
       \/ SyncCmdStep(i)
       \/ RacePoll(i)
       \/ RaceTimestamp(i)

RaceSpec == RaceInit /\ [][RaceNext]_vars

\* a copy of call i into the store is still to come
CopyPending(i) == race.call[i].stage \in {"cpConfig", "cpSkills"}

\* both archives of the store come from the same sync
OneAttemptsOutput ==
    \E k \in Attempts \cup {0} :
       /\ remote["openclaw-backup.tar.gz"] = File(ConfigArchiveOf(k))
       /\ remote["skills-backup.tar.gz"] = File(SkillsArchiveOf(k))

\* the syncCmd of call k has made both its copies and written its date
UploadCompleted(k) ==
    /\ race.call[k].stage \in {"echo", "exited"}
    /\ race.call[k].stdout # "SYNC_FAIL\n"

\* every lastSync a call returned is the date an attempt wrote after its copies
ReturnedStampsComplete ==
    \A i \in Attempts :
       (race.call[i].ret # None /\ race.call[i].ret[1].success
          /\ race.call[i].ret[1].lastSync # None)
         => \E k \in Attempts :
               /\ race.call[i].ret[1].lastSync = Some(DateString(k))
               /\ UploadCompleted(k)

\* C37 as stated: while the remote marker exists the archives are the output
\* of one attempt and no other attempt's copy is pending, and every lastSync
\* returned with a success was written by an attempt whose upload completed.
C37_MarkerMeansOneAttempt ==
    /\ remote[LastSync].exists
         => (OneAttemptsOutput /\ \A i \in Attempts : ~CopyPending(i))
    /\ ReturnedStampsComplete

\* C37: a marker written by one of the two attempts was written after that
\* attempt's own copies, and every lastSync returned with a success is such a
\* date; the marker says nothing about the copies of the other attempt.
C37_MarkerMeansWritersUpload ==
    /\ \A k \in Attempts :
          (remote[LastSync].exists /\ remote[LastSync].text = DateString(k) \o "\n")
             => race.call[k].stage \in {"echo", "exited"}
    /\ ReturnedStampsComplete

\* both calls have returned, the first with the date it wrote; the second
\* failed between its two copies, so the store holds its config archive
\* beside the skills archive and the marker of the first
C37_Witness ==
    /\ \A i \in Attempts : race.call[i].pc = "done"
    /\ race.call[1].ret[1].success
    /\ race.call[1].ret[1].lastSync = Some(DateString(1))
    /\ ~race.call[2].ret[1].success
    /\ remote[LastSync].exists
    /\ remote["openclaw-backup.tar.gz"] = File(ConfigArchiveOf(2))
    /\ remote["skills-backup.tar.gz"] = File(SkillsArchiveOf(1))

====
